---- MODULE Spec2Model ----
(***************************************************************************)
(* Spell tree construction and repair (HeartOfMagic, SpellTreeBuilder).    *)
(*                                                                         *)
(* One build request is modelled end to end: the items are grouped by      *)
(* school, one growth strategy builds a tree per school (Tier-Greedy in    *)
(* classic_build_tree.py, Arborescence with its greedy fallback and the    *)
(* two repair passes in graph_build_tree.py), the trees are serialised,    *)
(* validated and auto-fixed (validator.py).                                *)
(*                                                                         *)
(* Items are numbered from 1 in input order; Python dicts keep             *)
(* insertion order, so "nodes order" is increasing item number.  The       *)
(* children and prerequisites lists never hold an element twice, so        *)
(* they are sets here.  A parent score is                                  *)
(* a fixed part (tier direction, load) plus a part that depends on the     *)
(* items' texts, themes and the seeded jitter; the model keeps the fixed   *)
(* part and lets the rest range over its interval, so a candidate can be   *)
(* chosen exactly when some texts and jitter make it the best one.         *)
(***************************************************************************)
EXTENDS Integers, Sequences, FiniteSets, TLC

\* ---- bounds of the model ------------------------------------------------
MaxItems == 3
MaxTierIn == 2
MaxChildrenCfg == 2
MaxUnknown == 1
MaxNoSchool == 1
GraphItems == 4
MaxClock == 1
MaxRings == 21
MaxValNodes == 3
MaxMissing == 1
MaxValDepth == 1
MaxDeep == 1
MaxSpells == 2
MaxThemes == 2
MaxBucket == 4

\* ---- program constants --------------------------------------------------
NumTiers == 5
max_passes == 20
min_score == 30

Schools == 1..2
NoSchool == 0
TierIdxs == 0..(NumTiers - 1)
UnknownTier == NumTiers
NoItem == 0

VARIABLES
    skillLevel,     \* input: item -> tier index, or UnknownTier
    school,         \* input: item -> school, or NoSchool (not a valid school)
    strategy,       \* "classic" | "graph"
    maxChildren,    \* config max_children_per_node
    hasNetworkx,    \* HAS_NETWORKX: the networkx import succeeded
    autoFix,        \* config auto_fix_unreachable, as read after validation
    chaosHigh,      \* config chaos > 0.3, as read at the cross-school gate
    selected_roots, \* schools whose root config selected_roots named
    pc,             \* position in the build
    cur,            \* school being built
    built,          \* schools with a tree in tree_data['schools']
    root,           \* school -> root item (NoItem before the school is built)
    children,       \* item -> set of child items
    prereqs,        \* item -> set of prerequisite items
    depth,          \* item -> TreeNode.depth
    connected,      \* classic/greedy: connected set
    available,      \* classic/greedy: tier index -> available parents
    tierIdx,        \* classic/greedy: tier loop index
    todo,           \* classic/greedy: shuffled tier_spells still to place
    placed,         \* classic/greedy: placed_this_tier
    passes,         \* graph passes: number of the running pass
    changed,        \* graph passes: changed / found_violation
    scan,           \* graph passes: nodes the pass has not visited yet
    visiting,       \* graph passes: node whose children are being handled
    keep,           \* _constrain_branching: kept children of the node
    work,           \* graph passes: children still to reroute or to check
    applied,        \* _apply_cross_school_edges: links applied
    summary,        \* validation summary of the last validate_tree
    fixSchools,     \* auto-fix: schools still to fix
    fixPass,        \* auto-fix: pass_num of the running fix_unreachable_nodes
    fixQueue,       \* auto-fix: unreachable nodes of this pass not yet handled
    fixUnl,         \* auto-fix: unlockable set computed at the start of the pass
    fixAll,         \* auto-fix: the pass's whole unreachable list
    progress,       \* auto-fix: made_progress
    totalFixes,     \* auto-fix: total_fixes
    clock,          \* datetime.now()
    generatedAt,    \* tree_data['generatedAt']
    phase,          \* "first" | "revalidated" | "rebuilt"
    prior,          \* the earlier output that the repeated run is compared with
    themes,         \* grouping: the discovered theme keywords, a list
    spells,         \* grouping: the spells, each with its scores and LLM keywords
    gpc,            \* grouping: position in group_spells_best_fit
    idx,            \* grouping: index of the running for loop
    result,         \* grouping: group name -> list of spells
    reclassified,   \* grouping: spells moved out of the unassigned bucket
    input,          \* server: the lines of input_source, a list
    lineNo,         \* server: lines of input_source already read
    out,            \* server: the responses written after the ready line
    spc,            \* server: "idle" | "loop" | "exited" | "crashed"
    prm_available,  \* server: prm_process is not None
    nodeTier,       \* legacy builder: node -> _tier_to_depth(node.tier)
    nodeTheme,      \* legacy builder: node -> node.theme
    crossTheme,     \* legacy builder: tree_generation convergence_cross_theme
    isolationStrict,\* legacy builder: tree_generation element_isolation_strict
    legacyRoot,        \* legacy builder: the root of the school
    nodeChildren,   \* legacy builder: node -> node.children
    nodePrereqs,    \* legacy builder: node -> node.prerequisites
    nodeDepth,      \* legacy builder: node -> node.depth
    linked,         \* legacy builder: the connected set of _connect_nodes
    queued,         \* legacy builder: spells the connect loops have not met yet
    lpc,            \* legacy builder: position in _build_school_tree
    enforceIdx      \* legacy builder: nodes _enforce_high_tier_convergence has met

\* the variables of a build request
buildVars == <<skillLevel, school, strategy, maxChildren, hasNetworkx, autoFix,
               chaosHigh, selected_roots, pc, cur, built, root, children,
               prereqs, depth, connected, available, tierIdx, todo, placed,
               passes, changed, scan, visiting, keep, work, applied, summary,
               fixSchools, fixPass, fixQueue, fixUnl, fixAll, progress,
               totalFixes, clock, generatedAt, phase, prior>>

grouperVars == <<themes, spells, gpc, idx, result, reclassified>>

\* the variables of the parts that are no build request
serverVars == <<input, lineNo, out, spc, prm_available>>

legacyVars == <<nodeTier, nodeTheme, crossTheme, isolationStrict, legacyRoot,
                nodeChildren, nodePrereqs, nodeDepth, linked, queued, lpc,
                enforceIdx>>

extVars == <<grouperVars, serverVars, legacyVars>>

vars == <<buildVars, extVars>>

\* no grouping is running
GrouperIdle ==
    /\ themes = <<>> /\ spells = <<>> /\ gpc = "idle" /\ idx = 0
    /\ result = <<>> /\ reclassified = <<>>

\* no server is running
ServerIdle ==
    /\ input = <<>> /\ lineNo = 0 /\ out = <<>> /\ spc = "idle"
    /\ prm_available = FALSE

\* no legacy build is running
LegacyIdle ==
    /\ nodeTier = <<>> /\ nodeTheme = <<>> /\ crossTheme = FALSE
    /\ isolationStrict = FALSE /\ legacyRoot = 0 /\ nodeChildren = <<>>
    /\ nodePrereqs = <<>> /\ nodeDepth = <<>> /\ linked = {} /\ queued = {}
    /\ lpc = "idle" /\ enforceIdx = 0

ExtIdle == GrouperIdle /\ ServerIdle /\ LegacyIdle

\* the items of the request, numbered in input order
Items == DOMAIN school

inputVars == <<skillLevel, school, strategy, maxChildren, hasNetworkx, clock,
               phase, prior>>
cfgVars == <<autoFix, chaosHigh, selected_roots, generatedAt>>
loopVars == <<connected, available, tierIdx, todo, placed>>
passVars == <<passes, changed, scan, visiting, keep, work, applied>>
fixVars == <<fixSchools, fixPass, fixQueue, fixUnl, fixAll, progress, totalFixes>>
treeVars == <<root, children, prereqs, depth>>

\* ---- helpers ------------------------------------------------------------
Min(S) == CHOOSE x \in S : \A y \in S : x <= y

RECURSIVE SeqOf(_)
SeqOf(S) == IF S = {} THEN <<>> ELSE <<Min(S)>> \o SeqOf(S \ {Min(S)})

\* TIER_INDEX.get(tier, 0)
TierIndex(t) == IF t \in TierIdxs THEN t ELSE 0

TierOf(n) == TierIndex(skillLevel[n])

\* variant of SchoolItems that keeps the items of an unrecognised school, in
\* the school of the first item
SchoolItemsKeepAll(k) ==
    {n \in Items : school[n] = k \/ (school[n] = NoSchool /\ k = school[1])}

\* school_spells[school]: the items kept for a school
SchoolItems(k) == {n \in Items : school[n] = k}

\* school_spells.items(): schools in order of their first item
SchoolOrder == SeqOf({Min(SchoolItems(k)) : k \in {s \in Schools : SchoolItems(s) # {}}})

NumKids(ch, n) == Cardinality(ch[n])

\* variant of DictTier that writes the depth itself
DictTierZeroBased(n) == depth[n]

\* TreeNode.to_dict: 'tier' is depth + 1
DictTier(n) == depth[n] + 1

\* the candidates that some texts, themes and jitter make the best-scoring one:
\* base[x] is the part of x's score fixed by the tree, span the width of the rest
Winners(C, base, span) == {x \in C : \A y \in C : base[x] + span >= base[y]}

\* ---- validator.py -------------------------------------------------------
\* one sweep of the for loop inside simulate_unlocks, unlocking in place
RECURSIVE Sweep(_, _, _)
Sweep(order, unl, pre) ==
    IF order = <<>> THEN unl
    ELSE LET f == Head(order) IN
         IF f \in unl \/ pre[f] = {} \/ ~(pre[f] \subseteq unl)
         THEN Sweep(Tail(order), unl, pre)
         ELSE Sweep(Tail(order), unl \cup {f}, pre)

\* the while loop of simulate_unlocks: until no change or the iteration cap
RECURSIVE Iterate(_, _, _, _, _)
Iterate(order, unl, pre, iterations, max_iterations) ==
    IF iterations >= max_iterations THEN unl
    ELSE LET u2 == Sweep(order, unl, pre) IN
         IF u2 = unl THEN unl
         ELSE Iterate(order, u2, pre, iterations + 1, max_iterations)

\* variant of simulate_unlocks that stops after the first sweep over the nodes
simulate_unlocks_one_sweep(S, root_id, pre) ==
    Iterate(SeqOf(S), {root_id}, pre, 0, 1)

simulate_unlocks(S, root_id, pre) ==
    Iterate(SeqOf(S), {root_id}, pre, 0, Cardinality(S) + 10)

\* position of the first occurrence of n in path (path.index)
IndexOf(path, n) == Min({i \in 1..Len(path) : path[i] = n})

\* detect_cycles: dfs(node_id, path) with the visited set and the cycles found
RECURSIVE dfs(_, _, _, _, _)
RECURSIVE dfsPrereqs(_, _, _, _, _)
dfs(n, path, st, S, pre) ==
    IF \E i \in 1..Len(path) : path[i] = n
    THEN [st EXCEPT !.cycles = Append(@, SubSeq(path, IndexOf(path, n), Len(path)) \o <<n>>)]
    ELSE IF n \in st.visited THEN st
    ELSE dfsPrereqs(SeqOf(pre[n] \cap S), Append(path, n),
                    [st EXCEPT !.visited = @ \cup {n}], S, pre)

dfsPrereqs(list, path, st, S, pre) ==
    IF list = <<>> THEN st
    ELSE dfsPrereqs(Tail(list), path, dfs(Head(list), path, st, S, pre), S, pre)

RECURSIVE dfsAll(_, _, _, _)
dfsAll(order, st, S, pre) ==
    IF order = <<>> THEN st
    ELSE dfsAll(Tail(order),
                IF Head(order) \in st.visited THEN st
                ELSE dfs(Head(order), <<>>, st, S, pre), S, pre)

\* variant of detect_cycles that starts the search at the first node only
detect_cycles_from_first(S, pre) ==
    dfs(Min(S), <<>>, [visited |-> {}, cycles |-> <<>>], S, pre).cycles

detect_cycles(S, pre) == dfsAll(SeqOf(S), [visited |-> {}, cycles |-> <<>>], S, pre).cycles

\* validate_school_tree on the node dicts of school k
validate_school_tree(k, ch, pre) ==
    LET S == SchoolItems(k)
        unl == simulate_unlocks(S, root[k], pre)
        cyc == detect_cycles(S, pre)
        unreachable == S \ unl
        missing == {<<n, p>> \in S \X Items : p \in pre[n] /\ p \notin S}
        nerr == (IF cyc # <<>> THEN 1 ELSE 0) + (IF unreachable # {} THEN 1 ELSE 0)
                + Cardinality(missing)
    IN [valid |-> nerr = 0,
        total_nodes |-> Cardinality(S),
        reachable_nodes |-> Cardinality(unl),
        errors |-> nerr,
        has_cycles |-> cyc # <<>>,
        root_has_prereqs |-> pre[root[k]] # {},
        max_children_violations |-> {n \in S : Cardinality(ch[n]) > maxChildren}]

RECURSIVE SumOver(_, _)
SumOver(f, D) == IF D = {} THEN 0 ELSE LET x == Min(D) IN f[x] + SumOver(f, D \ {x})

\* variant of get_validation_summary that reports all_valid whatever the
\* errors
get_validation_summary_lenient(ch, pre) ==
    LET res == [k \in built |-> validate_school_tree(k, ch, pre)] IN
    [all_valid |-> TRUE,
     total_nodes |-> SumOver([k \in built |-> res[k].total_nodes], built),
     reachable_nodes |-> SumOver([k \in built |-> res[k].reachable_nodes], built),
     total_errors |-> SumOver([k \in built |-> res[k].errors], built),
     has_cycles |-> \E k \in built : res[k].has_cycles,
     max_children_violations |-> UNION {res[k].max_children_violations : k \in built}]

\* validate_tree + get_validation_summary over the built schools
get_validation_summary(ch, pre) ==
    LET res == [k \in built |-> validate_school_tree(k, ch, pre)] IN
    [all_valid |-> \A k \in built : res[k].valid,
     total_nodes |-> SumOver([k \in built |-> res[k].total_nodes], built),
     reachable_nodes |-> SumOver([k \in built |-> res[k].reachable_nodes], built),
     total_errors |-> SumOver([k \in built |-> res[k].errors], built),
     has_cycles |-> \E k \in built : res[k].has_cycles,
     max_children_violations |-> UNION {res[k].max_children_violations : k \in built}]

NoSummary == [all_valid |-> TRUE, total_nodes |-> 0, reachable_nodes |-> 0,
              total_errors |-> 0, has_cycles |-> FALSE, max_children_violations |-> {}]

\* ---- grouping and root choice -------------------------------------------
\* by_tier[tier] of school k: unknown tiers are appended to Novice
TierSpells(k, t) == {n \in SchoolItems(k) : TierOf(n) = t}

\* schools of school_spells not yet built, and the next one in dict order
Pending == {k \in Schools : SchoolItems(k) # {} /\ k \notin built}

NextSchool == school[Min({Min(SchoolItems(k)) : k \in Pending})]

\* _pick_root: a user-selected root may be any item of the pool, the
\* auto-pick is random.choice among the lowest non-empty tier
LowestTier(k) == Min({t \in TierIdxs : TierSpells(k, t) # {}})

_pick_root(k, override) ==
    IF override THEN SchoolItems(k) ELSE TierSpells(k, LowestTier(k))

\* tiers from t on whose tier_spells (root removed) are not empty
TiersFrom(k, r, t) == {u \in TierIdxs : u >= t /\ TierSpells(k, u) \ {r} # {}}

\* link_nodes / unlink_nodes on the children and prerequisites maps
LinkCh(ch, p, c) == [ch EXCEPT ![p] = @ \cup {c}]
LinkPre(pre, p, c) == [pre EXCEPT ![c] = @ \cup {p}]
UnlinkCh(ch, p, c) == [ch EXCEPT ![p] = @ \ {c}]
UnlinkPre(pre, p, c) == [pre EXCEPT ![c] = @ \ {p}]

\* ---- classic_build_tree.py: Tier-Greedy ---------------------------------
\* candidates of _find_best_parent for a node of tier index t
WithRoom(C, limit) == {c \in C : NumKids(children, c) < limit}

RECURSIVE WidenSearch(_, _)
WidenSearch(t, tier_distance) ==
    IF tier_distance > t + 1 \/ t - tier_distance < 0 THEN {}
    ELSE LET valid_cands == WithRoom(available[t - tier_distance], maxChildren) IN
         IF valid_cands # {} THEN valid_cands ELSE WidenSearch(t, tier_distance + 1)

RECURSIVE LastResort(_)
LastResort(d) ==
    IF d >= NumTiers THEN {}
    ELSE LET c == WithRoom(available[d], maxChildren + 2) IN
         IF c # {} THEN c ELSE LastResort(d + 1)

\* variant of Candidates that takes the parents with room of every tier at
\* once instead of widening one tier at a time
CandidatesAnyTier(n, t) ==
    WithRoom(UNION {available[d] : d \in TierIdxs}, maxChildren) \ {n}

Candidates(n, t) ==
    LET widened == WidenSearch(t, 1)
        same == IF widened = {} /\ t = 0
                THEN WithRoom(available[0], maxChildren) \ {n} ELSE widened
    IN IF same # {} THEN same ELSE LastResort(0)

\* the candidates that can come first in scored: all share the tier distance
\* and depth terms, the load term is -8 per child, the rest spans [-12, 97]
_find_best_parent(n, t) ==
    LET C == Candidates(n, t) IN
    Winners(C, [c \in C |-> 0 - 8 * NumKids(children, c)], 109)

\* _force_connect scores of the connected nodes for node n
ForceScore(n, c) ==
    (IF TierOf(c) <= TierOf(n) THEN 100 - 5 * (TierOf(n) - TierOf(c)) ELSE 0 - 200)
    - 8 * NumKids(children, c)

\* variant of ForceParents that only takes parents of a lower tier
ForceParentsLowerTier(n) ==
    LET C == {c \in connected : TierOf(c) < TierOf(n)} IN
    Winners(C, [c \in C |-> ForceScore(n, c)], 45)

ForceParents(n) == Winners(connected, [c \in connected |-> ForceScore(n, c)], 45)

ClassicBeginSchool ==
    /\ pc = "school" /\ strategy = "classic" /\ Pending # {}
    /\ LET k == NextSchool IN
       \E override \in BOOLEAN : \E r \in _pick_root(k, override) :
          LET ts == TiersFrom(k, r, 0) IN
          /\ selected_roots' = IF override THEN selected_roots \cup {k}
                                ELSE selected_roots
          /\ cur' = k
          /\ root' = [root EXCEPT ![k] = r]
          /\ depth' = [depth EXCEPT ![r] = 0]
          /\ connected' = {r}
          /\ available' = [d \in TierIdxs |-> IF d = 0 THEN {r} ELSE {}]
          /\ placed' = {}
          /\ IF ts = {}
             THEN /\ tierIdx' = NumTiers /\ todo' = {} /\ pc' = "force"
             ELSE /\ tierIdx' = Min(ts) /\ todo' = TierSpells(k, Min(ts)) \ {r}
                  /\ pc' = "tier"
    /\ UNCHANGED <<inputVars, autoFix, chaosHigh, generatedAt, built, children,
                   prereqs, passVars, summary, fixVars>>
    /\ UNCHANGED extVars

\* one iteration of "for spell in tier_spells" (the shuffle fixes the order)
ClassicPlace ==
    /\ pc = "tier" /\ strategy = "classic" /\ todo # {}
    /\ \E n \in todo :
         /\ todo' = todo \ {n}
         /\ IF _find_best_parent(n, tierIdx) = {}
            THEN UNCHANGED <<children, prereqs, depth, connected, available, placed>>
            ELSE \E parent \in _find_best_parent(n, tierIdx) :
                   /\ children' = LinkCh(children, parent, n)
                   /\ prereqs' = LinkPre(prereqs, parent, n)
                   /\ depth' = [depth EXCEPT ![n] = tierIdx]
                   /\ connected' = connected \cup {n}
                   /\ placed' = placed \cup {n}
                   /\ available' = IF NumKids(children', parent) >= maxChildren
                                   THEN [d \in TierIdxs |-> available[d] \ {parent}]
                                   ELSE available
    /\ UNCHANGED <<inputVars, cfgVars, pc, cur, built, root, tierIdx, passVars,
                   summary, fixVars>>
    /\ UNCHANGED extVars

\* end of a tier: the placed nodes with capacity become available parents;
\* the loop then skips the tiers that have no spells
ClassicEndTier ==
    /\ pc = "tier" /\ strategy = "classic" /\ todo = {}
    /\ LET ts == TiersFrom(cur, root[cur], tierIdx + 1) IN
       /\ available' = [available EXCEPT ![tierIdx] = @ \cup WithRoom(placed, maxChildren)]
       /\ placed' = {}
       /\ IF ts = {}
          THEN /\ tierIdx' = NumTiers
               /\ todo' = SchoolItems(cur) \ connected
               /\ pc' = "force"
          ELSE /\ tierIdx' = Min(ts)
               /\ todo' = TierSpells(cur, Min(ts)) \ {root[cur]}
               /\ pc' = "tier"
    /\ UNCHANGED <<inputVars, cfgVars, cur, built, treeVars, connected, passVars,
                   summary, fixVars>>
    /\ UNCHANGED extVars

\* one iteration of the loop of _force_connect, in nodes order
ClassicForceConnect ==
    /\ pc = "force" /\ strategy = "classic" /\ todo # {}
    /\ LET n == Min(todo) IN
       /\ todo' = todo \ {n}
       /\ IF ForceParents(n) = {}
          THEN UNCHANGED <<children, prereqs, depth, connected, available>>
          ELSE \E best_parent \in ForceParents(n) :
                 /\ children' = LinkCh(children, best_parent, n)
                 /\ prereqs' = LinkPre(prereqs, best_parent, n)
                 /\ depth' = [depth EXCEPT ![n] = TierOf(n)]
                 /\ connected' = connected \cup {n}
                 /\ available' = [available EXCEPT ![TierOf(n)] = @ \cup {n}]
    /\ UNCHANGED <<inputVars, cfgVars, pc, cur, built, root, tierIdx, placed,
                   passVars, summary, fixVars>>
    /\ UNCHANGED extVars

\* _build_school_tree returns: its locals are gone, the node dicts of the
\* school enter tree_data['schools']
ClassicSerialize ==
    /\ pc = "force" /\ strategy = "classic" /\ todo = {}
    /\ built' = built \cup {cur}
    /\ pc' = "school"
    /\ cur' = NoSchool
    /\ connected' = {}
    /\ available' = [d \in TierIdxs |-> {}]
    /\ tierIdx' = 0
    /\ placed' = {}
    /\ UNCHANGED <<inputVars, cfgVars, treeVars, todo, passVars, summary, fixVars>>
    /\ UNCHANGED extVars

\* ---- graph_build_tree.py: Arborescence -----------------------------------
\* does following par from n lead to r within fuel steps
RECURSIVE ReachesRoot(_, _, _, _)
ReachesRoot(par, r, n, fuel) ==
    IF n = r THEN TRUE
    ELSE IF fuel = 0 THEN FALSE
    ELSE ReachesRoot(par, r, par[n], fuel - 1)

\* variant of candidate_edges that does not skip the root as a child
candidate_edges_into_root(S, r) ==
    {e \in S \X S : /\ e[1] # e[2]
                    /\ \/ ~(TierOf(e[1]) > TierOf(e[2]) + 1)
                       \/ e[1] = r}

\* the sparse candidate graph G of _edmonds_arborescence: no edge into the
\* root; into every other node an edge from each node that is not 2+ tiers
\* above it (in a school of at most K = 20 nodes all of them are among the K
\* cheapest) and, in any case, an edge from the root
candidate_edges(S, r) ==
    {e \in S \X (S \ {r}) : /\ e[1] # e[2]
                            /\ \/ ~(TierOf(e[1]) > TierOf(e[2]) + 1)
                               \/ e[1] = r}

\* the edge sets nx.minimum_spanning_arborescence may return for the graph
\* (S, E): the spanning arborescences of the graph, whatever their root; which
\* of them is the cheapest depends on the texts and the jitter
Arborescences(S, E) ==
    UNION {{{<<par[c], c>> : c \in S \ {rt}} :
               par \in {q \in [S \ {rt} -> S] :
                          \A c \in S \ {rt} :
                              /\ <<q[c], c>> \in E
                              /\ ReachesRoot(q, rt, c, Cardinality(S))}} :
           rt \in S}

_edmonds_arborescence(S, r) == Arborescences(S, candidate_edges(S, r))

\* _pick_root, then networkx or the greedy fallback
GraphBeginSchool ==
    /\ pc = "school" /\ strategy = "graph" /\ Pending # {}
    /\ LET k == NextSchool IN
       \E r \in _pick_root(k, FALSE) :
          LET ts == TiersFrom(k, r, 0) IN
          /\ cur' = k
          /\ root' = [root EXCEPT ![k] = r]
          /\ depth' = [depth EXCEPT ![r] = 0]
          /\ connected' = {r}
          /\ available' = [d \in TierIdxs |-> IF d = 0 THEN {r} ELSE {}]
          /\ placed' = {}
          /\ IF hasNetworkx /\ Cardinality(SchoolItems(k)) >= 2
             THEN /\ tierIdx' = 0 /\ todo' = {} /\ pc' = "arb"
             ELSE IF ts = {}
             THEN /\ tierIdx' = NumTiers /\ todo' = {} /\ pc' = "g_force"
             ELSE /\ tierIdx' = Min(ts) /\ todo' = TierSpells(k, Min(ts)) \ {r}
                  /\ pc' = "g_tier"
    /\ UNCHANGED <<inputVars, cfgVars, built, children, prereqs, passVars,
                   summary, fixVars>>
    /\ UNCHANGED extVars

\* _edmonds_arborescence and _apply_arborescence; the depths link_nodes
\* leaves are all overwritten by _assign_depths_bfs before they are read
GraphArborescence ==
    /\ pc = "arb"
    /\ LET S == SchoolItems(cur)
           r == root[cur]
       IN \E arb_edges \in _edmonds_arborescence(S, r) :
            /\ children' = [m \in Items |->
                  IF m \in S THEN {c \in S : <<m, c>> \in arb_edges}
                  ELSE children[m]]
            /\ prereqs' = [m \in Items |->
                  IF m = r THEN {}
                  ELSE IF m \in S THEN {p \in S : <<p, m>> \in arb_edges}
                  ELSE prereqs[m]]
    /\ pc' = "constrain"
    /\ passes' = 1 /\ changed' = FALSE /\ scan' = SchoolItems(cur)
    /\ visiting' = NoItem /\ keep' = {} /\ work' = {}
    /\ UNCHANGED <<inputVars, cfgVars, cur, built, root, depth, loopVars, applied,
                   summary, fixVars>>
    /\ UNCHANGED extVars

\* _greedy_build: the first tier from t down to 0 that has a parent with room
RECURSIVE GreedySearch(_)
GreedySearch(search_tier) ==
    IF search_tier < 0 THEN {}
    ELSE LET c == WithRoom(available[search_tier], maxChildren) IN
         IF c # {} THEN c ELSE GreedySearch(search_tier - 1)

\* the load term is -6 per child; similarities, theme and jitter span 109
GreedyParents(t) ==
    LET C == GreedySearch(t) IN
    Winners(C, [c \in C |-> 0 - 6 * NumKids(children, c)], 109)

GreedyPlace ==
    /\ pc = "g_tier" /\ todo # {}
    /\ \E n \in todo :
         /\ todo' = todo \ {n}
         /\ IF GreedyParents(tierIdx) = {}
            THEN UNCHANGED <<children, prereqs, depth, connected, available, placed>>
            ELSE \E best_parent \in GreedyParents(tierIdx) :
                   /\ children' = LinkCh(children, best_parent, n)
                   /\ prereqs' = LinkPre(prereqs, best_parent, n)
                   /\ depth' = [depth EXCEPT ![n] = tierIdx]
                   /\ connected' = connected \cup {n}
                   /\ placed' = placed \cup {n}
                   /\ available' = IF NumKids(children', best_parent) >= maxChildren
                                   THEN [d \in TierIdxs |-> available[d] \ {best_parent}]
                                   ELSE available
    /\ UNCHANGED <<inputVars, cfgVars, pc, cur, built, root, tierIdx, passVars,
                   summary, fixVars>>
    /\ UNCHANGED extVars

GreedyEndTier ==
    /\ pc = "g_tier" /\ todo = {}
    /\ LET ts == TiersFrom(cur, root[cur], tierIdx + 1) IN
       /\ available' = [available EXCEPT ![tierIdx] = @ \cup WithRoom(placed, maxChildren)]
       /\ placed' = {}
       /\ IF ts = {}
          THEN /\ tierIdx' = NumTiers /\ todo' = {} /\ pc' = "g_force"
          ELSE /\ tierIdx' = Min(ts)
               /\ todo' = TierSpells(cur, Min(ts)) \ {root[cur]}
               /\ pc' = "g_tier"
    /\ UNCHANGED <<inputVars, cfgVars, cur, built, treeVars, connected, passVars,
                   summary, fixVars>>
    /\ UNCHANGED extVars

\* the unconnected nodes are all attached to the root
GreedyForce ==
    /\ pc = "g_force"
    /\ LET r == root[cur]
           unconnected == SchoolItems(cur) \ connected
       IN /\ children' = [children EXCEPT ![r] = @ \cup unconnected]
          /\ prereqs' = [m \in Items |->
                IF m \in unconnected THEN prereqs[m] \cup {r} ELSE prereqs[m]]
          /\ connected' = connected \cup unconnected
    /\ pc' = "constrain"
    /\ passes' = 1 /\ changed' = FALSE /\ scan' = SchoolItems(cur)
    /\ visiting' = NoItem /\ keep' = {} /\ work' = {}
    /\ UNCHANGED <<inputVars, cfgVars, cur, built, root, depth, available, tierIdx,
                   todo, placed, applied, summary, fixVars>>
    /\ UNCHANGED extVars

\* ---- graph_build_tree.py: the repair passes ------------------------------
max_passes_branching == 10
max_passes_tier == 5

\* nodes of this pass still to visit that exceed max_children
Overloaded == {n \in scan : NumKids(children, n) > maxChildren}

\* _constrain_branching reaches the next node with too many children (the
\* nodes before it are skipped by "continue") and splits its children: the
\* max_children of highest affinity are kept, the others are to be rerouted
ConstrainVisit ==
    /\ pc = "constrain" /\ work = {} /\ Overloaded # {}
    /\ LET n == Min(Overloaded) IN
       /\ visiting' = n
       /\ scan' = {m \in scan : m > n}
       /\ \E K \in SUBSET children[n] :
            /\ Cardinality(K) = maxChildren
            /\ keep' = K
            /\ work' = children[n] \ K
    /\ UNCHANGED <<inputVars, cfgVars, pc, cur, built, treeVars, loopVars, passes,
                   changed, applied, summary, fixVars>>
    /\ UNCHANGED extVars

\* siblings that can adopt: load term -5 per child, similarities span 50
BestSiblings ==
    LET C == WithRoom(keep, maxChildren) IN
    Winners(C, [c \in C |-> 0 - 5 * NumKids(children, c)], 50)

\* "try any connected node with capacity": the first in nodes order
AnyWithCapacity(n, reroute) ==
    LET C == {o \in SchoolItems(cur) :
                 /\ o # reroute /\ o # n
                 /\ NumKids(children, o) < maxChildren
                 /\ TierOf(o) <= TierOf(reroute)}
    IN IF C = {} THEN {} ELSE {Min(C)}

NewParents(n, reroute) ==
    IF BestSiblings # {} THEN BestSiblings ELSE AnyWithCapacity(n, reroute)

\* one iteration of "for reroute_fid in reroute"
ConstrainReroute ==
    /\ pc = "constrain" /\ work # {}
    /\ \E reroute \in work :
         /\ work' = work \ {reroute}
         /\ IF NewParents(visiting, reroute) = {}
            THEN UNCHANGED <<children, prereqs, changed>>
            ELSE \E best_sibling \in NewParents(visiting, reroute) :
                   /\ children' = LinkCh(UnlinkCh(children, visiting, reroute),
                                         best_sibling, reroute)
                   /\ prereqs' = LinkPre(UnlinkPre(prereqs, visiting, reroute),
                                         best_sibling, reroute)
                   /\ changed' = TRUE
    /\ UNCHANGED <<inputVars, cfgVars, pc, cur, built, root, depth, loopVars,
                   passes, scan, visiting, keep, applied, summary, fixVars>>
    /\ UNCHANGED extVars

\* end of a pass of _constrain_branching: another pass, or on to
\* _enforce_tier_ordering
ConstrainEndPass ==
    /\ pc = "constrain" /\ work = {} /\ Overloaded = {}
    /\ IF changed /\ passes < max_passes_branching
       THEN /\ passes' = passes + 1
            /\ pc' = "constrain"
       ELSE /\ passes' = 0
            /\ pc' = "tier_order"
    /\ changed' = FALSE
    /\ scan' = SchoolItems(cur)
    /\ visiting' = NoItem /\ keep' = {} /\ work' = {}
    /\ UNCHANGED <<inputVars, cfgVars, cur, built, treeVars, loopVars, applied,
                   summary, fixVars>>
    /\ UNCHANGED extVars

\* children of n that _enforce_tier_ordering treats as violations
Violating(n) ==
    IF n = root[cur] THEN {}
    ELSE {c \in children[n] : TierOf(c) <= TierOf(n)}

Violators == {n \in scan : Violating(n) # {}}

\* _enforce_tier_ordering reaches the next node with a violating child
TierVisit ==
    /\ pc = "tier_order" /\ work = {} /\ Violators # {}
    /\ LET n == Min(Violators) IN
       /\ visiting' = n
       /\ scan' = {m \in scan : m > n}
       /\ work' = Violating(n)
    /\ UNCHANGED <<inputVars, cfgVars, pc, cur, built, treeVars, loopVars, passes,
                   changed, keep, applied, summary, fixVars>>
    /\ UNCHANGED extVars

Abs(x) == IF x < 0 THEN 0 - x ELSE x

\* new parents for a violating child: strictly lower tier, with capacity;
\* load -5 per child, tier distance -3 per step, similarities span 35
TierCandidates(n, child) ==
    {c \in SchoolItems(cur) : /\ c # child /\ c # n
                             /\ ~(TierOf(c) >= TierOf(child))
                             /\ ~(NumKids(children, c) >= maxChildren)}

BestNewParents(n, child) ==
    LET C == TierCandidates(n, child) IN
    Winners(C, [c \in C |-> 0 - 5 * NumKids(children, c)
                              - 3 * Abs(TierOf(child) - TierOf(c) - 1)], 35)

\* one iteration of "for child_fid in list(node.children)" on a violation
TierReparent ==
    /\ pc = "tier_order" /\ work # {}
    /\ \E child \in work :
         /\ work' = work \ {child}
         /\ IF BestNewParents(visiting, child) = {}
            THEN UNCHANGED <<children, prereqs, changed>>
            ELSE \E best_new_parent \in BestNewParents(visiting, child) :
                   /\ children' = LinkCh(UnlinkCh(children, visiting, child),
                                         best_new_parent, child)
                   /\ prereqs' = LinkPre(UnlinkPre(prereqs, visiting, child),
                                         best_new_parent, child)
                   /\ changed' = TRUE
    /\ UNCHANGED <<inputVars, cfgVars, pc, cur, built, root, depth, loopVars,
                   passes, scan, visiting, keep, applied, summary, fixVars>>
    /\ UNCHANGED extVars

\* end of a pass of _enforce_tier_ordering
TierEndPass ==
    /\ pc = "tier_order" /\ work = {} /\ Violators = {}
    /\ IF changed /\ passes + 1 < max_passes_tier
       THEN /\ passes' = passes + 1
            /\ pc' = "tier_order"
       ELSE /\ passes' = 0
            /\ pc' = "bfs"
    /\ changed' = FALSE
    /\ scan' = SchoolItems(cur)
    /\ visiting' = NoItem /\ keep' = {} /\ work' = {}
    /\ UNCHANGED <<inputVars, cfgVars, cur, built, treeVars, loopVars, applied,
                   summary, fixVars>>
    /\ UNCHANGED extVars

\* _assign_depths_bfs, level by level: visited nodes get their distance from
\* the root, the others their tier index
RECURSIVE BfsLevels(_, _, _, _)
BfsLevels(frontier, visited, d, dep) ==
    IF frontier = {} THEN [visited |-> visited, dep |-> dep]
    ELSE LET nxt == ((UNION {children[n] : n \in frontier}) \cap SchoolItems(cur))
                     \ visited
         IN BfsLevels(nxt, visited \cup nxt, d + 1,
                      [m \in Items |-> IF m \in nxt THEN d + 1 ELSE dep[m]])

_assign_depths_bfs ==
    LET r == root[cur]
        res == BfsLevels({r}, {r}, 0, [depth EXCEPT ![r] = 0])
    IN [m \in Items |-> IF m \in SchoolItems(cur) \ res.visited THEN TierOf(m)
                        ELSE res.dep[m]]

\* depths; _build_school_tree returns: its locals are gone, the node dicts
\* of the school enter tree_data['schools']
GraphSerialize ==
    /\ pc = "bfs"
    /\ depth' = _assign_depths_bfs
    /\ built' = built \cup {cur}
    /\ pc' = "school"
    /\ cur' = NoSchool
    /\ connected' = {}
    /\ available' = [d \in TierIdxs |-> {}]
    /\ tierIdx' = 0
    /\ placed' = {}
    /\ scan' = {}
    /\ UNCHANGED <<inputVars, cfgVars, root, children, prereqs, todo, passes,
                   changed, visiting, keep, work, applied, summary, fixVars>>
    /\ UNCHANGED extVars

\* ---- cross-school edges -------------------------------------------------
\* the gate: chaos > 0.3 and more than one school built
\* a variant that considers cross-school edges at any chaos
cross_school_edges_any_chaos(high, schools) == Cardinality(schools) > 1

\* chaos > 0.3 and len(tree_data['schools']) > 1
cross_school_edges_wanted(high, schools) == high /\ Cardinality(schools) > 1

CrossGate ==
    /\ pc = "school" /\ strategy = "graph" /\ Pending = {}
    /\ chaosHigh' \in BOOLEAN
    /\ pc' = IF cross_school_edges_wanted(chaosHigh', built) THEN "cross" ELSE "validate"
    /\ applied' = 0
    /\ UNCHANGED <<inputVars, autoFix, selected_roots, generatedAt, cur, built,
                   treeVars, loopVars, passes, changed, scan, visiting, keep, work,
                   summary, fixVars>>
    /\ UNCHANGED extVars

Max(a, b) == IF a >= b THEN a ELSE b

AllNodes == UNION {SchoolItems(k) : k \in built}

\* max(1, int(N * 0.05 * chaos)) for chaos up to 1
max_cross_links == Max(1, (Cardinality(AllNodes) * 5) \div 100)

\* a pair a, b of all_fids (a listed first) as <<parent, child>>: the lower
\* tier is the parent, a on equal tiers
Direction(a, b) == IF TierOf(a) <= TierOf(b) THEN <<a, b>> ELSE <<b, a>>

CrossPairs ==
    {Direction(a, b) : <<a, b>> \in {e \in AllNodes \X AllNodes :
                                        school[e[1]] < school[e[2]]}}

\* one candidate of enough affinity is applied
CrossLink ==
    /\ pc = "cross" /\ applied < max_cross_links
    /\ \E e \in CrossPairs :
         /\ ~(NumKids(children, e[1]) >= maxChildren)
         /\ e[1] \notin prereqs[e[2]]
         /\ prereqs' = LinkPre(prereqs, e[1], e[2])
         /\ children' = LinkCh(children, e[1], e[2])
    /\ applied' = applied + 1
    /\ UNCHANGED <<inputVars, cfgVars, pc, cur, built, root, depth, loopVars,
                   passes, changed, scan, visiting, keep, work, summary, fixVars>>
    /\ UNCHANGED extVars

\* no further candidate: on to validation
CrossDone ==
    /\ pc = "cross"
    /\ pc' = "validate"
    /\ UNCHANGED <<inputVars, cfgVars, cur, built, treeVars, loopVars, passVars,
                   summary, fixVars>>
    /\ UNCHANGED extVars

\* ---- validate and auto-fix (entry functions + validator.py) -------------
\* validate_tree, get_validation_summary and the auto-fix gate
Validate ==
    /\ \/ pc = "school" /\ Pending = {} /\ strategy = "classic"
       \/ pc = "validate"
    /\ generatedAt' = clock
    /\ summary' = get_validation_summary(children, prereqs)
    /\ IF summary'.total_errors > 0
       THEN autoFix' \in BOOLEAN
       ELSE autoFix' = autoFix
    /\ IF summary'.total_errors > 0 /\ autoFix'
       THEN /\ pc' = "fix"
            /\ fixSchools' = SeqOf(built)
       ELSE /\ pc' = "done"
            /\ fixSchools' = <<>>
    /\ UNCHANGED <<inputVars, chaosHigh, selected_roots, cur, built, treeVars,
                   loopVars, passVars, fixPass, fixQueue, fixUnl, fixAll,
                   progress, totalFixes>>
    /\ UNCHANGED extVars

\* head of "for pass_num in range(max_passes)" for the school being fixed
FixBeginPass ==
    /\ pc = "fix" /\ fixSchools # <<>>
    /\ LET k == Head(fixSchools)
           unlockable == simulate_unlocks(SchoolItems(k), root[k], prereqs)
           unreachable == SchoolItems(k) \ unlockable
       IN IF fixPass >= max_passes \/ unreachable = {}
          THEN /\ fixSchools' = Tail(fixSchools)
               /\ fixPass' = 0
               /\ fixUnl' = {} /\ fixAll' = {} /\ progress' = FALSE
               /\ UNCHANGED <<pc, fixQueue>>
          ELSE /\ fixUnl' = unlockable
               /\ fixAll' = unreachable
               /\ fixQueue' = SeqOf(unreachable)
               /\ progress' = FALSE
               /\ pc' = "fix_node"
               /\ UNCHANGED <<fixSchools, fixPass>>
    /\ UNCHANGED <<inputVars, cfgVars, cur, built, treeVars, loopVars, passVars,
                   summary, totalFixes>>
    /\ UNCHANGED extVars

\* parents a new prerequisite may be taken from, with their scores
FixScore(n, p) == 20 - (DictTier(n) - DictTier(p)) * 5 - NumKids(children, p)

\* variant of FixCandidates that does not skip a parent that is full
FixCandidatesAnyLoad(n) ==
    {p \in fixUnl : p # n /\ DictTier(n) - DictTier(p) >= 0}

FixCandidates(n) ==
    {p \in fixUnl : /\ p # n
                    /\ NumKids(children, p) < maxChildren
                    /\ DictTier(n) - DictTier(p) >= 0}

\* best_parent: an existing reachable prerequisite, else a best-scoring
\* candidate (the first of the maxima in the iteration order of the set)
BestParents(n) ==
    IF prereqs[n] \cap fixUnl # {} THEN prereqs[n] \cap fixUnl
    ELSE {p \in FixCandidates(n) :
             \A q \in FixCandidates(n) : FixScore(n, p) >= FixScore(n, q)}

\* one iteration of "for form_id in unreachable"
FixNode ==
    /\ pc = "fix_node" /\ fixQueue # <<>>
    /\ LET k == Head(fixSchools)
           n == Head(fixQueue)
           blocking == {p \in prereqs[n] : p \notin fixUnl /\ p # root[k]}
       IN /\ fixQueue' = Tail(fixQueue)
          /\ IF (blocking = {} /\ prereqs[n] # {}) \/ BestParents(n) = {}
             THEN UNCHANGED <<children, prereqs, progress, totalFixes>>
             ELSE \E best_parent \in BestParents(n) :
                    /\ children' = [m \in Items |->
                          IF m = best_parent THEN children[m] \cup {n}
                          ELSE IF m \in blocking /\ m \in SchoolItems(k)
                               THEN children[m] \ {n} ELSE children[m]]
                    /\ prereqs' = [prereqs EXCEPT
                                     ![n] = (@ \cap fixUnl) \cup {best_parent}]
                    /\ totalFixes' = totalFixes + 1
                    /\ progress' = TRUE
    /\ UNCHANGED <<inputVars, cfgVars, pc, cur, built, root, depth, loopVars,
                   passVars, summary, fixSchools, fixPass, fixUnl, fixAll>>
    /\ UNCHANGED extVars

\* end of a pass: without progress every unreachable node is connected
\* directly to the root
\* variant of ForceAttached under which the last resort attaches nothing
ForceAttachedNone(k) == {}

\* variant of ForceAttached under which the last resort re-attaches every
\* node of the school but the root, reachable or not
ForceAttachedWholeSchool(k) == SchoolItems(k) \ {root[k]}

\* the nodes the last resort connects to the root: the pass's unreachable
\* nodes but the root
ForceAttached(k) == fixAll \ {root[k]}

FixEndPass ==
    /\ pc = "fix_node" /\ fixQueue = <<>>
    /\ LET k == Head(fixSchools)
           r == root[k]
           forced == ForceAttached(k)
       IN IF progress
          THEN UNCHANGED <<children, prereqs, totalFixes>>
          ELSE /\ children' = [m \in Items |->
                     IF m = r THEN children[m] \cup forced
                     ELSE IF m \in SchoolItems(k) THEN children[m] \ forced
                     ELSE children[m]]
               /\ prereqs' = [m \in Items |-> IF m \in forced THEN {r} ELSE prereqs[m]]
               /\ totalFixes' = totalFixes + Cardinality(forced)
    /\ fixPass' = fixPass + 1
    /\ pc' = "fix"
    /\ UNCHANGED <<inputVars, cfgVars, cur, built, root, depth, loopVars,
                   passVars, summary, fixSchools, fixQueue, fixUnl, fixAll,
                   progress>>
    /\ UNCHANGED extVars

\* variant of summary_after_fix that keeps the summary of the first validation
summary_before_fix(total_fixes) == summary

\* "if total_fixes > 0: validation = validate_tree(...)": the summary that
\* goes into tree_data['validation'] after auto-fix
summary_after_fix(total_fixes) ==
    IF total_fixes > 0 THEN get_validation_summary(children, prereqs)
    ELSE summary

\* after the last school: validate again when something was fixed
FixDone ==
    /\ pc = "fix" /\ fixSchools = <<>>
    /\ summary' = summary_after_fix(totalFixes)
    /\ pc' = "done"
    /\ UNCHANGED <<inputVars, cfgVars, cur, built, treeVars, loopVars, passVars,
                   fixVars>>
    /\ UNCHANGED extVars

\* ---- the build request --------------------------------------------------
NoTime == 0 - 1
NoPrior == [generatedAt |-> NoTime]

InputTiers == (0..MaxTierIn) \cup {UnknownTier}

\* schools are numbered in the order of their first item
SchoolInputs(N) ==
    {f \in [1..N -> Schools \cup {NoSchool}] :
        /\ \A n \in 1..N : f[n] = 2 => \E m \in 1..(n - 1) : f[m] = 1
        /\ Cardinality({n \in 1..N : f[n] = NoSchool}) <= MaxNoSchool}

TierInputs(N) ==
    {f \in [1..N -> InputTiers] :
        Cardinality({n \in 1..N : f[n] = UnknownTier}) <= MaxUnknown}

\* state of a request with N items before the first school is built
InitBuild(N) ==
    /\ skillLevel \in TierInputs(N)
    /\ school \in SchoolInputs(N)
    /\ maxChildren \in 1..MaxChildrenCfg
    /\ \/ strategy = "classic" /\ hasNetworkx = FALSE
       \/ strategy = "graph" /\ hasNetworkx \in BOOLEAN
    /\ clock = 0
    /\ generatedAt = NoTime
    /\ phase = "first"
    /\ prior = NoPrior
    /\ autoFix = TRUE
    /\ chaosHigh = FALSE
    /\ selected_roots = {}
    /\ passes = 0
    /\ changed = FALSE
    /\ scan = {}
    /\ visiting = NoItem
    /\ keep = {}
    /\ work = {}
    /\ applied = 0
    /\ pc = "school"
    /\ cur = NoSchool
    /\ built = {}
    /\ root = [k \in Schools |-> NoItem]
    /\ children = [n \in 1..N |-> {}]
    /\ prereqs = [n \in 1..N |-> {}]
    /\ depth = [n \in 1..N |-> 0]
    /\ connected = {}
    /\ available = [d \in TierIdxs |-> {}]
    /\ tierIdx = 0
    /\ todo = {}
    /\ placed = {}
    /\ summary = NoSummary
    /\ fixSchools = <<>>
    /\ fixPass = 0
    /\ fixQueue = <<>>
    /\ fixUnl = {}
    /\ fixAll = {}
    /\ progress = FALSE
    /\ totalFixes = 0
    /\ ExtIdle

\* 'nodes' of tree_data['schools'][k]: one dictionary per spell of the school
TreeNodes(k) == IF k \in built THEN SchoolItems(k) ELSE {}

\* ---- validation and auto-fix of large trees -----------------------------
\* The graph builder with max_children_per_node = 1 can leave pairs of nodes
\* that are each other's only parent (_constrain_branching reroutes a child
\* to "any node with capacity", which may be the child's own child).  The
\* trees below are what it hands to the validator for a school of 2j + 3
\* spells of one skill level: the chain R -> K -> dK from the root R, and j
\* detached pairs d_i <-> b_i whose depth is their tier index.
RingTiers == {0, NumTiers - 1}

RingPartner(n, j) == IF n <= j THEN n + j ELSE n - j

RingChildren(j) ==
    [n \in 1..(2 * j + 3) |->
        IF n <= 2 * j THEN {RingPartner(n, j)}
        ELSE IF n = 2 * j + 3 THEN {2 * j + 1}
        ELSE IF n = 2 * j + 1 THEN {2 * j + 2}
        ELSE {}]

RingPrereqs(j) ==
    [n \in 1..(2 * j + 3) |->
        IF n <= 2 * j THEN {RingPartner(n, j)}
        ELSE IF n = 2 * j + 1 THEN {2 * j + 3}
        ELSE IF n = 2 * j + 2 THEN {2 * j + 1}
        ELSE {}]

RingDepth(j, t) ==
    [n \in 1..(2 * j + 3) |->
        IF n <= 2 * j THEN t
        ELSE IF n = 2 * j + 1 THEN 1
        ELSE IF n = 2 * j + 2 THEN 2
        ELSE 0]

InitFix ==
    \E j \in 0..MaxRings : \E t \in RingTiers :
        /\ skillLevel = [n \in 1..(2 * j + 3) |-> t]
        /\ school = [n \in 1..(2 * j + 3) |-> 1]
        /\ strategy = "graph"
        /\ hasNetworkx = TRUE
        /\ maxChildren = 1
        /\ clock = 0
        /\ generatedAt = NoTime
        /\ phase = "first"
        /\ prior = NoPrior
        /\ autoFix = TRUE
        /\ chaosHigh = FALSE
        /\ selected_roots = {}
        /\ passes = 0
        /\ changed = FALSE
        /\ scan = {}
        /\ visiting = NoItem
        /\ keep = {}
        /\ work = {}
        /\ applied = 0
        /\ pc = "validate"
        /\ cur = NoSchool
        /\ built = {1}
        /\ root = [k \in Schools |-> IF k = 1 THEN 2 * j + 3 ELSE NoItem]
        /\ children = RingChildren(j)
        /\ prereqs = RingPrereqs(j)
        /\ depth = RingDepth(j, t)
        /\ connected = {}
        /\ available = [d \in TierIdxs |-> {}]
        /\ tierIdx = 0
        /\ todo = {}
        /\ placed = {}
        /\ summary = NoSummary
        /\ fixSchools = <<>>
        /\ fixPass = 0
        /\ fixQueue = <<>>
        /\ fixUnl = {}
        /\ fixAll = {}
        /\ progress = FALSE
        /\ totalFixes = 0
        /\ ExtIdle

NextFix ==
    \/ Validate
    \/ FixBeginPass
    \/ FixNode
    \/ FixEndPass
    \/ FixDone

SpecFix == InitFix /\ [][NextFix]_vars

\* ---- the same request a second time --------------------------------------
\* what a build returns: the node dictionaries, the validation block and the
\* timestamp
tree_data ==
    [children |-> children,
     prerequisites |-> prereqs,
     tier |-> [n \in Items |-> DictTier(n)],
     validation |-> [all_valid |-> summary.all_valid,
                     total_nodes |-> summary.total_nodes,
                     reachable_nodes |-> summary.reachable_nodes],
     generatedAt |-> generatedAt]

\* time passes between two requests
Tick ==
    /\ pc = "done" /\ phase = "first" /\ clock < MaxClock
    /\ clock' = clock + 1
    /\ UNCHANGED <<skillLevel, school, strategy, maxChildren, hasNetworkx, phase,
                   prior, cfgVars, pc, cur, built, treeVars, loopVars, passVars,
                   summary, fixVars>>
    /\ UNCHANGED extVars

\* The request is built again with the same items, configuration and seed.
\* random.seed(seed) makes the generator repeat its draws; the second build
\* is taken to repeat the steps of the first (the order in which Python
\* iterates over a set of strings, which can differ between two processes,
\* is left out), and the timestamp is read anew.
Rebuild ==
    /\ pc = "done" /\ phase = "first"
    /\ phase' = "rebuilt"
    /\ prior' = tree_data
    /\ generatedAt' = clock
    /\ UNCHANGED <<skillLevel, school, strategy, maxChildren, hasNetworkx, clock,
                   autoFix, chaosHigh, selected_roots, pc, cur, built, treeVars,
                   loopVars, passVars, summary, fixVars>>
    /\ UNCHANGED extVars

\* A returned tree that was reported all_valid is validated again, and
\* fix_unreachable_nodes is called again for each of its schools, with the
\* same max_children
Revalidate ==
    /\ pc = "done" /\ phase = "first" /\ summary.all_valid
    /\ phase' = "revalidated"
    /\ prior' = tree_data
    /\ summary' = get_validation_summary(children, prereqs)
    /\ pc' = "fix"
    /\ fixSchools' = SeqOf(built)
    /\ totalFixes' = 0
    /\ UNCHANGED <<skillLevel, school, strategy, maxChildren, hasNetworkx, clock,
                   cfgVars, cur, built, treeVars, loopVars, passVars, fixPass,
                   fixQueue, fixUnl, fixAll, progress>>
    /\ UNCHANGED extVars

\* ---- requests of all kinds ----------------------------------------------
Init == InitBuild(MaxItems)

Next ==
    \/ ClassicBeginSchool
    \/ ClassicPlace
    \/ ClassicEndTier
    \/ ClassicForceConnect
    \/ ClassicSerialize
    \/ GraphBeginSchool
    \/ GraphArborescence
    \/ GreedyPlace
    \/ GreedyEndTier
    \/ GreedyForce
    \/ ConstrainVisit
    \/ ConstrainReroute
    \/ ConstrainEndPass
    \/ TierVisit
    \/ TierReparent
    \/ TierEndPass
    \/ GraphSerialize
    \/ CrossGate
    \/ CrossLink
    \/ CrossDone
    \/ Validate
    \/ FixBeginPass
    \/ FixNode
    \/ FixEndPass
    \/ FixDone
    \/ Tick
    \/ Rebuild
    \/ Revalidate

Spec == Init /\ [][Next]_vars

\* ---- graph builds of one school with more spells ------------------------
InitGraph ==
    /\ InitBuild(GraphItems)
    /\ strategy = "graph"
    /\ \A n \in Items : school[n] = 1

NextGraph ==
    \/ GraphBeginSchool
    \/ GraphArborescence
    \/ GreedyPlace
    \/ GreedyEndTier
    \/ GreedyForce
    \/ ConstrainVisit
    \/ ConstrainReroute
    \/ ConstrainEndPass
    \/ TierVisit
    \/ TierReparent
    \/ TierEndPass
    \/ GraphSerialize
    \/ CrossGate
    \/ Validate
    \/ FixBeginPass
    \/ FixNode
    \/ FixEndPass
    \/ FixDone

SpecGraph == InitGraph /\ [][NextGraph]_vars

\* ---- the validator on node dictionaries of any shape --------------------
\* validate_tree and fix_unreachable_nodes take the node dictionaries of a
\* school as they are handed over.  Below, a school of N nodes arrives with
\* any prerequisite lists: a node may list itself, a node that is not the
\* root may list nothing, and a list may name an identifier that is no node
\* of the school (item N + 1, which belongs to no school).  The children
\* lists are the reverse of the prerequisite lists; the output tier of a node
\* is 1 but for at most MaxDeep nodes.
ValPrereqs(N) ==
    {f \in [1..(N + 1) -> SUBSET (1..(N + 1))] :
        /\ f[N + 1] = {}
        /\ Cardinality({n \in 1..N : (N + 1) \in f[n]}) <= MaxMissing}

InitVal ==
    \E N \in 1..MaxValNodes :
        /\ skillLevel = [n \in 1..(N + 1) |-> 0]
        /\ school = [n \in 1..(N + 1) |-> IF n <= N THEN 1 ELSE NoSchool]
        /\ strategy = "classic"
        /\ hasNetworkx = FALSE
        /\ maxChildren \in 1..MaxChildrenCfg
        /\ clock = 0
        /\ generatedAt = NoTime
        /\ phase = "first"
        /\ prior = NoPrior
        /\ autoFix = TRUE
        /\ chaosHigh = FALSE
        /\ selected_roots = {}
        /\ passes = 0
        /\ changed = FALSE
        /\ scan = {}
        /\ visiting = NoItem
        /\ keep = {}
        /\ work = {}
        /\ applied = 0
        /\ pc = "validate"
        /\ cur = NoSchool
        /\ built = {1}
        /\ \E r \in 1..N : root = [k \in Schools |-> IF k = 1 THEN r ELSE NoItem]
        /\ prereqs \in ValPrereqs(N)
        /\ children = [p \in 1..(N + 1) |->
                          IF p <= N THEN {c \in 1..N : p \in prereqs[c]} ELSE {}]
        /\ depth \in {d \in [1..(N + 1) -> 0..MaxValDepth] :
                        /\ d[N + 1] = 0
                        /\ Cardinality({n \in 1..N : d[n] > 0}) <= MaxDeep}
        /\ connected = {}
        /\ available = [d \in TierIdxs |-> {}]
        /\ tierIdx = 0
        /\ todo = {}
        /\ placed = {}
        /\ summary = NoSummary
        /\ fixSchools = <<>>
        /\ fixPass = 0
        /\ fixQueue = <<>>
        /\ fixUnl = {}
        /\ fixAll = {}
        /\ progress = FALSE
        /\ totalFixes = 0
        /\ ExtIdle

SpecVal == InitVal /\ [][NextFix]_vars

\* ---- a Tier-Greedy build of six spells over three tiers -------------------
\* six spells of one school, two of each of the three lowest tiers, built by
\* the classic builder with max_children_per_node 2; the shuffles, the root
\* choice and the scores take every outcome
ScenarioTiers == <<0, 0, 1, 1, 2, 2>>

InitScenario ==
    /\ skillLevel = ScenarioTiers
    /\ school = [n \in 1..Len(ScenarioTiers) |-> 1]
    /\ strategy = "classic"
    /\ maxChildren = 2
    /\ InitBuild(Len(ScenarioTiers))

NextScenario ==
    \/ ClassicBeginSchool
    \/ ClassicPlace
    \/ ClassicEndTier
    \/ ClassicSerialize
    \/ Validate

SpecScenario == InitScenario /\ [][NextScenario]_vars

\* ---- spell_grouper.py: best-fit theme grouping ---------------------------
\* no build request is running
BuildIdle ==
    /\ skillLevel = <<>> /\ school = <<>>
    /\ maxChildren = 1 /\ strategy = "classic" /\ hasNetworkx = FALSE
    /\ clock = 0 /\ generatedAt = NoTime /\ phase = "first" /\ prior = NoPrior
    /\ autoFix = TRUE /\ chaosHigh = FALSE /\ selected_roots = {}
    /\ passes = 0 /\ changed = FALSE /\ scan = {} /\ visiting = NoItem
    /\ keep = {} /\ work = {} /\ applied = 0
    /\ pc = "idle" /\ cur = NoSchool /\ built = {}
    /\ root = [k \in Schools |-> NoItem]
    /\ children = <<>> /\ prereqs = <<>> /\ depth = <<>>
    /\ connected = {} /\ available = [d \in TierIdxs |-> {}]
    /\ tierIdx = 0 /\ todo = {} /\ placed = {}
    /\ summary = NoSummary
    /\ fixSchools = <<>> /\ fixPass = 0 /\ fixQueue = <<>> /\ fixUnl = {}
    /\ fixAll = {} /\ progress = FALSE /\ totalFixes = 0

\* the name of the bucket of the spells that match no theme
Unassigned == "_unassigned"
\* a missing or empty llm_keyword / llm_keyword_parent
NoKeyword == ""
ThemeNames == {"fire", "frost"}
KeywordNames == ThemeNames \cup {Unassigned, NoKeyword}
\* calculate_theme_score yields 0..100; one value below min_score, one above
Scores == {20, 40}

ThemeLists == UNION {[1..n -> ThemeNames] : n \in 0..MaxThemes}

\* a spell as grouping sees it: its score against each theme of the list
\* and its LLM keyword fields
SpellInputs(th) ==
    [score : [1..Len(th) -> Scores],
     llm_keyword : KeywordNames,
     llm_keyword_parent : KeywordNames]

Range(seq) == {seq[i] : i \in 1..Len(seq)}

\* theme_scores.sort(key=score, reverse=True)[0]: the first theme of the list
\* among those with the highest score
BestIndex(sp) ==
    CHOOSE i \in 1..Len(themes) :
        /\ \A j \in 1..Len(themes) : spells[sp].score[j] <= spells[sp].score[i]
        /\ \A j \in 1..(i - 1) : spells[sp].score[j] < spells[sp].score[i]

best_score(sp) == spells[sp].score[BestIndex(sp)]

\* the group a spell goes to in group_spells_by_themes
best_fit_group(sp) ==
    IF best_score(sp) >= min_score THEN themes[BestIndex(sp)] ELSE Unassigned

\* groups[theme].sort(key=score, reverse=True): stable, highest score first
RECURSIVE SortByScore(_, _)
SortByScore(seq, S) ==
    IF S = {} THEN <<>>
    ELSE LET top == CHOOSE v \in S : \A w \in S : w <= v
         IN SelectSeq(seq, LAMBDA sp : best_score(sp) = top)
            \o SortByScore(seq, S \ {top})

\* list.remove(x): the list without the first element equal to x
RECURSIVE RemoveFirst(_, _)
RemoveFirst(seq, x) ==
    IF seq = <<>> THEN <<>>
    ELSE IF Head(seq) = x THEN Tail(seq)
    ELSE <<Head(seq)>> \o RemoveFirst(Tail(seq), x)

\* _group_spells_to_themes: without themes everything is unassigned;
\* otherwise group_spells_by_themes begins with an empty list per theme and
\* an empty unassigned bucket
GroupBegin ==
    /\ gpc = "start"
    /\ IF themes = <<>>
       THEN /\ result' = [g \in {Unassigned} |-> [i \in 1..Len(spells) |-> i]]
            /\ gpc' = "done"
            /\ idx' = 0
       ELSE /\ result' = [g \in Range(themes) \cup {Unassigned} |-> <<>>]
            /\ gpc' = "by_themes"
            /\ idx' = 1
    /\ UNCHANGED <<buildVars, serverVars, legacyVars, themes, spells, reclassified>>

\* one iteration of "for spell in spells" of group_spells_by_themes
GroupSpell ==
    /\ gpc = "by_themes" /\ idx <= Len(spells)
    /\ result' = [result EXCEPT ![best_fit_group(idx)] = Append(@, idx)]
    /\ idx' = idx + 1
    /\ UNCHANGED <<buildVars, serverVars, legacyVars, themes, spells, gpc, reclassified>>

\* the end of group_spells_by_themes (every group sorted by score) and the
\* conversion to plain lists; "if unassigned:" guards the move
GroupSort ==
    /\ gpc = "by_themes" /\ idx > Len(spells)
    /\ result' = [g \in DOMAIN result |-> SortByScore(result[g], Scores)]
    /\ gpc' = IF result'[Unassigned] = <<>> THEN "done" ELSE "move"
    /\ idx' = 1
    /\ UNCHANGED <<buildVars, serverVars, legacyVars, themes, spells, reclassified>>

\* the group an LLM-classified spell of the unassigned bucket moves to
\* (NoKeyword: it stays)
llm_group(sp) ==
    LET llm_kw == spells[sp].llm_keyword
        parent == spells[sp].llm_keyword_parent
    IN IF llm_kw = NoKeyword THEN NoKeyword
       ELSE IF llm_kw \in DOMAIN result THEN llm_kw
       ELSE IF parent # NoKeyword /\ parent \in DOMAIN result THEN parent
       ELSE NoKeyword

\* one iteration of "for spell in unassigned": the loop walks the list
\* result['_unassigned'] itself, by index, while the body appends to
\* result[...]; the length of the bucket is capped at MaxBucket
MoveSpell ==
    /\ gpc = "move" /\ idx <= Len(result[Unassigned])
    /\ Len(result[Unassigned]) < MaxBucket
    /\ LET sp == result[Unassigned][idx] IN
       IF llm_group(sp) = NoKeyword
       THEN UNCHANGED <<result, reclassified>>
       ELSE /\ result' = [result EXCEPT ![llm_group(sp)] = Append(@, sp)]
            /\ reclassified' = Append(reclassified, sp)
    /\ idx' = idx + 1
    /\ UNCHANGED <<buildVars, serverVars, legacyVars, themes, spells, gpc>>

\* the loop over unassigned is exhausted
MoveEnd ==
    /\ gpc = "move" /\ idx > Len(result[Unassigned])
    /\ gpc' = "remove"
    /\ UNCHANGED <<buildVars, serverVars, legacyVars, themes, spells, idx, result, reclassified>>

\* one iteration of "for spell in reclassified: unassigned.remove(spell)"
RemoveMoved ==
    /\ gpc = "remove" /\ reclassified # <<>>
    /\ result' = [result EXCEPT
                    ![Unassigned] = RemoveFirst(@, Head(reclassified))]
    /\ reclassified' = Tail(reclassified)
    /\ UNCHANGED <<buildVars, serverVars, legacyVars, themes, spells, gpc, idx>>

\* return result
GroupReturn ==
    /\ gpc = "remove" /\ reclassified = <<>>
    /\ gpc' = "done"
    /\ UNCHANGED <<buildVars, serverVars, legacyVars, themes, spells, idx, result, reclassified>>

InitGrouper ==
    /\ BuildIdle
    /\ ServerIdle
    /\ LegacyIdle
    /\ themes \in ThemeLists
    /\ spells \in UNION {[1..n -> SpellInputs(themes)] : n \in 1..MaxSpells}
    /\ gpc = "start" /\ idx = 0
    /\ result = <<>> /\ reclassified = <<>>

NextGrouper ==
    \/ GroupBegin
    \/ GroupSpell
    \/ GroupSort
    \/ MoveSpell
    \/ MoveEnd
    \/ RemoveMoved
    \/ GroupReturn

SpecGrouper == InitGrouper /\ [][NextGrouper]_vars

\* ---- server.py: the JSON-line request loop --------------------------------

MaxLines == 2

NoId == "absent"            \* the request object has no "id" key
None == "None"              \* request_id before msg.get has run
FalsyId == "0"              \* an id that is false in Python: 0, "", null
LoneSurrogate == "\\ud800"  \* an id that utf-8 cannot encode
RequestIds == {"r1", "r2", FalsyId, LoneSurrogate}
COMMAND_HANDLERS == {"build_tree_classic"}
Commands == {"shutdown", "ping", "prm_score", "nope"} \cup COMMAND_HANDLERS

\* what one line of input_source can be; raises: the data make the handler
\* (or prm_process) raise an Exception
Line(kind, id, command, raises) ==
    [kind |-> kind, id |-> id, command |-> command, raises |-> raises]

Lines ==
    {Line("blank", NoId, "", FALSE),       \* empty after strip()
     Line("invalid", NoId, "", FALSE),     \* json.loads raises JSONDecodeError
     Line("value", NoId, "", FALSE)}       \* JSON, but no object: [1], 5, null
    \cup {Line("request", i, c, r) :
            i \in RequestIds \cup {NoId}, c \in Commands, r \in {FALSE}}
    \cup {Line("request", i, c, TRUE) :
            i \in RequestIds \cup {NoId},
            c \in COMMAND_HANDLERS \cup {"prm_score"}}

CurrentLine == input[lineNo + 1]

MoreInput == spc = "loop" /\ lineNo < Len(input)

\* msg.get("id", "unknown")
request_id(line) == IF line.id = NoId THEN "unknown" ELSE line.id

Response(id, success) == [id |-> id, success |-> success]

\* out.write(line) of send_response: the text stream encodes the line
Encodable(id) == id # LoneSurrogate

\* the except Exception clause: rid = request_id or "unknown", then one
\* send_response outside any try
handle_exception(rid0) ==
    LET rid == IF rid0 \in {None, FalsyId} THEN "unknown" ELSE rid0
    IN  IF Encodable(rid)
        THEN out' = Append(out, Response(rid, FALSE)) /\ spc' = "loop"
        ELSE out' = out /\ spc' = "crashed"

\* a send_response inside the try; after: where the loop goes when it returns
send_response(id, success, after) ==
    IF Encodable(id)
    THEN out' = Append(out, Response(id, success)) /\ spc' = after
    ELSE handle_exception(id)

ReadLine(kind) ==
    /\ MoreInput
    /\ CurrentLine.kind = kind
    /\ lineNo' = lineNo + 1

ReadCommand(commands) ==
    /\ ReadLine("request")
    /\ CurrentLine.command \in commands

SkipBlank ==
    /\ ReadLine("blank")
    /\ UNCHANGED <<buildVars, grouperVars, legacyVars, input, out, spc, prm_available>>

\* request_id is still None, so the JSONDecodeError clause sends nothing
InvalidJson ==
    /\ ReadLine("invalid")
    /\ UNCHANGED <<buildVars, grouperVars, legacyVars, input, out, spc, prm_available>>

\* msg.get raises AttributeError while request_id is None
NotAnObject ==
    /\ ReadLine("value")
    /\ handle_exception(None)
    /\ UNCHANGED <<buildVars, grouperVars, legacyVars, input, prm_available>>

Shutdown ==
    /\ ReadCommand({"shutdown"})
    /\ send_response(request_id(CurrentLine), TRUE, "exited")
    /\ UNCHANGED <<buildVars, grouperVars, legacyVars, input, prm_available>>

Ping ==
    /\ ReadCommand({"ping"})
    /\ send_response(request_id(CurrentLine), TRUE, "loop")
    /\ UNCHANGED <<buildVars, grouperVars, legacyVars, input, prm_available>>

PrmScore ==
    /\ ReadCommand({"prm_score"})
    /\ IF ~prm_available
       THEN send_response(request_id(CurrentLine), FALSE, "loop")
       ELSE IF CurrentLine.raises
            THEN handle_exception(request_id(CurrentLine))
            ELSE send_response(request_id(CurrentLine), TRUE, "loop")
    /\ UNCHANGED <<buildVars, grouperVars, legacyVars, input, prm_available>>

Dispatch ==
    /\ ReadCommand(COMMAND_HANDLERS)
    /\ IF CurrentLine.raises
       THEN handle_exception(request_id(CurrentLine))
       ELSE send_response(request_id(CurrentLine), TRUE, "loop")
    /\ UNCHANGED <<buildVars, grouperVars, legacyVars, input, prm_available>>

UnknownCommand ==
    /\ ReadCommand(Commands \ ({"shutdown", "ping", "prm_score"}
                               \cup COMMAND_HANDLERS))
    /\ send_response(request_id(CurrentLine), FALSE, "loop")
    /\ UNCHANGED <<buildVars, grouperVars, legacyVars, input, prm_available>>

\* the for loop runs out of lines
EndOfInput ==
    /\ spc = "loop"
    /\ lineNo = Len(input)
    /\ spc' = "exited"
    /\ UNCHANGED <<buildVars, grouperVars, legacyVars, input, lineNo, out, prm_available>>

InitServer ==
    /\ BuildIdle
    /\ GrouperIdle
    /\ LegacyIdle
    /\ input \in UNION {[1..n -> Lines] : n \in 0..MaxLines}
    /\ lineNo = 0
    /\ out = <<>>
    /\ spc = "loop"
    /\ prm_available \in BOOLEAN

NextServer ==
    \/ SkipBlank
    \/ InvalidJson
    \/ NotAnObject
    \/ Shutdown
    \/ Ping
    \/ PrmScore
    \/ Dispatch
    \/ UnknownCommand
    \/ EndOfInput

SpecServer == InitServer /\ [][NextServer]_vars

\* ---- tree_builder.py: the legacy theme builder, one school -----------------

LegacyItems == 4
LegacyMaxChildren == 2
convergence_at_tier == 3
FirstSpell == 1     \* the root is the first spell of the school

LegacyNodes == 1..LegacyItems
LegacyTiers == {0, 3, 4}            \* Novice, Expert, Master
LegacyThemes == {"fire", Unassigned}

MaxOf(S) == CHOOSE x \in S : \A y \in S : y <= x

HasRoom(p) == Cardinality(nodeChildren[p]) < LegacyMaxChildren

\* the nodes of S with the fewest children
LeastLoaded(S) ==
    {p \in S : \A q \in S :
        Cardinality(nodeChildren[p]) <= Cardinality(nodeChildren[q])}

\* the parents _find_parent can return for n under the default settings
\* (strict_tier_ordering, allow_same_tier_links): every connected node is in
\* available under its depth; the scores depend on names and descriptions,
\* so each candidate can be the best one
_find_parent(n) ==
    LET with_room == {p \in linked : nodeDepth[p] <= nodeTier[n] /\ HasRoom(p)}
    IN  IF with_room # {}
        THEN with_room
        ELSE LeastLoaded({p \in linked : nodeDepth[p] < nodeTier[n]})

\* breadth-first walk over the children lists
RECURSIVE forward(_, _, _)
forward(ch, seen, frontier) ==
    IF frontier = {}
    THEN seen
    ELSE forward(ch, seen \cup frontier,
                 UNION {ch[f] : f \in frontier} \ (seen \cup frontier))

_get_reachable_from_root(ch, r) == forward(ch, {}, {r})

\* potential_ancestor is reached from node_id over the children lists
_is_descendant(potential_ancestor, node_id, ch, dp) ==
    IF dp[potential_ancestor] <= dp[node_id]
    THEN FALSE
    ELSE potential_ancestor \in forward(ch, {}, {node_id})

tier_max_prereqs(t) ==
    CASE t = 0 -> 1
      [] t \in {1, 2} -> 2
      [] t = 3 -> 3
      [] OTHER -> 4

\* the candidates _maybe_add_convergence keeps at depth d
different(n, pre, d, ch, dp, L) ==
    {p \in L :
        /\ dp[p] = d
        /\ IF crossTheme THEN nodeTheme[p] # nodeTheme[n]
           ELSE isolationStrict => nodeTheme[p] = nodeTheme[n]
        /\ p \notin pre
        /\ p \in _get_reachable_from_root(ch, legacyRoot)
        /\ ~_is_descendant(p, n, ch, dp)}

\* the first depth below the node's, going up, that has a candidate
nearest_candidates(n, pre, ch, dp, L) ==
    LET ds == {d \in 0..(dp[n] - 1) : different(n, pre, d, ch, dp, L) # {}}
    IN  IF ds = {} THEN {} ELSE different(n, pre, MaxOf(ds), ch, dp, L)

\* the prerequisite lists the loop "for _ in range(prereqs_to_add)" can leave
RECURSIVE add_convergence(_, _, _, _, _, _)
add_convergence(n, pre, k, ch, dp, L) ==
    IF k = 0 \/ Cardinality(pre) >= tier_max_prereqs(nodeTier[n])
    THEN {pre}
    ELSE LET cands == nearest_candidates(n, pre, ch, dp, L)
         IN  IF cands = {}
             THEN {pre}
             ELSE UNION {add_convergence(n, pre \cup {e}, k - 1, ch, dp, L) :
                           e \in cands}

\* the prerequisite lists _maybe_add_convergence can leave; random.random()
\* decides when the convergence is not forced
_maybe_add_convergence(n, pre, ch, dp, L) ==
    LET t == nodeTier[n]
        force_convergence == \/ (t >= 3 /\ Cardinality(pre) < 2)
                             \/ (t >= 4 /\ Cardinality(pre) < 3)
        prereqs_to_add == IF t >= 4 THEN MaxOf({1, 3 - Cardinality(pre)})
                          ELSE IF t >= 3 THEN MaxOf({1, 2 - Cardinality(pre)})
                          ELSE 1
    IN  (IF force_convergence THEN {} ELSE {pre})
        \cup add_convergence(n, pre, prereqs_to_add, ch, dp, L)

\* the first node in dictionary order among those f ranks lowest
FirstLowest(S, f(_)) ==
    CHOOSE p \in S : \A q \in S : f(p) < f(q) \/ (f(p) = f(q) /\ p <= q)

\* the spells of the theme queue not met yet, and the one the round takes:
\* the queue of a theme is sorted by tier, and the sort is stable
ThemeQueue == {n \in queued : nodeTheme[n] # Unassigned}

NextInTheme ==
    LET tierOf(n) == nodeTier[n] IN FirstLowest(ThemeQueue, tierOf)

\* link_nodes(parent, node) and the bookkeeping of the connect loops
LinkUnder(p, n, pres) ==
    /\ nodeChildren' = [nodeChildren EXCEPT ![p] = @ \cup {n}]
    /\ nodeDepth' = [nodeDepth EXCEPT ![n] = nodeDepth[p] + 1]
    /\ linked' = linked \cup {n}
    /\ nodePrereqs' \in {[nodePrereqs EXCEPT ![n] = ps] : ps \in pres}

\* one round of the theme loop of _connect_nodes: a themed spell gets its
\* parent and, from convergence_at_tier on, its convergence prerequisites
ConnectNode ==
    /\ lpc = "connect"
    /\ ThemeQueue # {}
    /\ \E n \in {NextInTheme} \ linked :
        /\ \E p \in _find_parent(n) :
            LET ch == [nodeChildren EXCEPT ![p] = @ \cup {n}]
                dp == [nodeDepth EXCEPT ![n] = nodeDepth[p] + 1]
            IN  LinkUnder(p, n,
                    IF nodeTier[n] >= convergence_at_tier
                    THEN _maybe_add_convergence(n, nodePrereqs[n] \cup {p},
                                                ch, dp, linked \cup {n})
                    ELSE {nodePrereqs[n] \cup {p}})
        /\ queued' = queued \ {n}
    /\ UNCHANGED <<nodeTier, nodeTheme, crossTheme, isolationStrict, legacyRoot,
                   lpc, enforceIdx>>
    /\ UNCHANGED <<buildVars, grouperVars, serverVars>>

\* _process_unassigned: a near miss takes the theme it is near to; no
\* convergence here
ProcessUnassigned ==
    /\ lpc = "connect"
    /\ ThemeQueue = {}
    /\ \E n \in queued \ linked :
        /\ \E th \in LegacyThemes :
            nodeTheme' = [nodeTheme EXCEPT ![n] = th]
        /\ \E p \in _find_parent(n) :
            LinkUnder(p, n, {nodePrereqs[n] \cup {p}})
        /\ queued' = queued \ {n}
    /\ UNCHANGED <<nodeTier, crossTheme, isolationStrict, legacyRoot, lpc,
                   enforceIdx>>
    /\ UNCHANGED <<buildVars, grouperVars, serverVars>>

\* the spell is connected already (the root), or _find_parent returns None
ConnectSkip ==
    /\ lpc = "connect"
    /\ \E n \in (IF ThemeQueue # {} THEN {NextInTheme} ELSE queued) :
        /\ n \in linked \/ _find_parent(n) = {}
        /\ queued' = queued \ {n}
    /\ UNCHANGED <<nodeTier, nodeTheme, crossTheme, isolationStrict, legacyRoot,
                   nodeChildren, nodePrereqs, nodeDepth, linked, lpc,
                   enforceIdx>>
    /\ UNCHANGED <<buildVars, grouperVars, serverVars>>

\* _connect_orphans starts: the orphans are the nodes the root does not reach
ConnectEnd ==
    /\ lpc = "connect"
    /\ queued = {}
    /\ lpc' = "orphans"
    /\ queued' = LegacyNodes \ _get_reachable_from_root(nodeChildren, legacyRoot)
    /\ UNCHANGED <<nodeTier, nodeTheme, crossTheme, isolationStrict, legacyRoot,
                   nodeChildren, nodePrereqs, nodeDepth, linked, enforceIdx>>
    /\ UNCHANGED <<buildVars, grouperVars, serverVars>>

orphan_score(p, orphan) ==
    (IF nodeDepth[p] < nodeTier[orphan]
     THEN 50 + (IF nodeDepth[p] = nodeTier[orphan] - 1 THEN 30 ELSE 0)
     ELSE IF nodeDepth[p] = nodeTier[orphan] THEN 10 ELSE 0 - 50)
    + (IF nodeTheme[p] = nodeTheme[orphan] THEN 40 ELSE 0)
    - Cardinality(nodeChildren[p]) * 15

\* the parent _connect_orphans gives an orphan, or {} when there is none
orphan_parent(orphan) ==
    LET roomy == {p \in linked : HasRoom(p)}
        lower == {p \in linked : nodeDepth[p] < nodeTier[orphan]}
        neg(p) == 0 - orphan_score(p, orphan)
        load(p) == Cardinality(nodeChildren[p])
    IN  IF roomy # {} THEN {FirstLowest(roomy, neg)}
        ELSE IF lower # {} THEN {FirstLowest(lower, load)}
        ELSE {}

\* one orphan of _connect_orphans, in tier order
ConnectOrphan ==
    /\ lpc = "orphans"
    /\ queued # {}
    /\ LET tierOf(n) == nodeTier[n]
           orphan == FirstLowest(queued, tierOf)
       IN  /\ IF orphan_parent(orphan) = {}
              THEN UNCHANGED <<nodeChildren, nodePrereqs, nodeDepth, linked>>
              ELSE \E p \in orphan_parent(orphan) :
                     LinkUnder(p, orphan, {nodePrereqs[orphan] \cup {p}})
           /\ queued' = queued \ {orphan}
    /\ UNCHANGED <<nodeTier, nodeTheme, crossTheme, isolationStrict, legacyRoot,
                   lpc, enforceIdx>>
    /\ UNCHANGED <<buildVars, grouperVars, serverVars>>

OrphansEnd ==
    /\ lpc = "orphans"
    /\ queued = {}
    /\ lpc' = "enforce"
    /\ enforceIdx' = 0
    /\ UNCHANGED <<nodeTier, nodeTheme, crossTheme, isolationStrict, legacyRoot,
                   nodeChildren, nodePrereqs, nodeDepth, linked, queued>>
    /\ UNCHANGED <<buildVars, grouperVars, serverVars>>

\* the only candidates _enforce_high_tier_convergence accepts at any depth:
\* not the node, not a prerequisite already, reachable, theme allowed
enforce_candidates_any_depth(n) ==
    {c \in LegacyNodes \ ({n} \cup nodePrereqs[n]) :
        /\ c \in _get_reachable_from_root(nodeChildren, legacyRoot)
        /\ (~crossTheme /\ isolationStrict) => nodeTheme[c] = nodeTheme[n]}

\* the candidates of _enforce_high_tier_convergence
enforce_candidates(n) ==
    {c \in enforce_candidates_any_depth(n) :
        /\ ~(nodeDepth[c] >= nodeDepth[n])
        /\ ~_is_descendant(c, n, nodeChildren, nodeDepth)}

min_prereqs(n) == IF nodeTier[n] >= 4 THEN 3 ELSE 2

\* one node of the loop of _enforce_high_tier_convergence; the order of the
\* candidates depends on the description similarities, so any prereqs_needed
\* of them can come first
EnforceNode ==
    /\ lpc = "enforce"
    /\ enforceIdx < LegacyItems
    /\ enforceIdx' = enforceIdx + 1
    /\ LET n == enforceIdx + 1
           needed == min_prereqs(n) - Cardinality(nodePrereqs[n])
       IN  IF n = legacyRoot \/ nodeTier[n] < 3 \/ needed <= 0
           THEN UNCHANGED nodePrereqs
           ELSE \E A \in SUBSET enforce_candidates(n) :
                  /\ \/ Cardinality(A) = needed
                     \/ (A = enforce_candidates(n) /\ Cardinality(A) < needed)
                  /\ nodePrereqs' = [nodePrereqs EXCEPT ![n] = @ \cup A]
    /\ UNCHANGED <<nodeTier, nodeTheme, crossTheme, isolationStrict, legacyRoot,
                   nodeChildren, nodeDepth, linked, queued, lpc>>
    /\ UNCHANGED <<buildVars, grouperVars, serverVars>>

EnforceEnd ==
    /\ lpc = "enforce"
    /\ enforceIdx = LegacyItems
    /\ lpc' = "enforced"
    /\ UNCHANGED <<nodeTier, nodeTheme, crossTheme, isolationStrict, legacyRoot,
                   nodeChildren, nodePrereqs, nodeDepth, linked, queued,
                   enforceIdx>>
    /\ UNCHANGED <<buildVars, grouperVars, serverVars>>

InitLegacy ==
    /\ BuildIdle
    /\ GrouperIdle
    /\ ServerIdle
    /\ nodeTier \in [LegacyNodes -> LegacyTiers]
    /\ nodeTheme \in [LegacyNodes -> LegacyThemes]
    /\ crossTheme \in BOOLEAN
    /\ isolationStrict \in BOOLEAN
    /\ crossTheme => ~isolationStrict
    /\ legacyRoot = FirstSpell
    /\ nodeChildren = [n \in LegacyNodes |-> {}]
    /\ nodePrereqs = [n \in LegacyNodes |-> {}]
    /\ nodeDepth = [n \in LegacyNodes |-> 0]
    /\ linked = {legacyRoot}
    /\ queued = LegacyNodes
    /\ lpc = "connect"
    /\ enforceIdx = 0

NextLegacy ==
    \/ ConnectNode
    \/ ProcessUnassigned
    \/ ConnectSkip
    \/ ConnectEnd
    \/ ConnectOrphan
    \/ OrphansEnd
    \/ EnforceNode
    \/ EnforceEnd

SpecLegacy == InitLegacy /\ [][NextLegacy]_vars

\* ---- properties ---------------------------------------------------------
\* nodes reached from the nodes of S along child edges, S included
RECURSIVE ReachFrom(_, _)
ReachFrom(ch, S) ==
    LET T == S \cup UNION {ch[n] : n \in S}
    IN IF T = S THEN S ELSE ReachFrom(ch, T)

\* n lies on a directed cycle of child edges
OnCycle(ch, n) == n \in ReachFrom(ch, ch[n])

\* every node of every built school is unlockable from the school's root
FullyReachable ==
    \A k \in built :
        simulate_unlocks(SchoolItems(k), root[k], prereqs) = SchoolItems(k)

\* C1: with auto-fix enabled, after validation and auto-fix the summary of
\* the returned tree reports reachable_nodes equal to total_nodes, and every
\* node is indeed unlockable from its school's root.
C1_AllReachableAfterFix ==
    (pc = "done" /\ autoFix) =>
        /\ summary.reachable_nodes = summary.total_nodes
        /\ FullyReachable

\* C2: the child edges of a returned tree contain no directed cycle, also
\* after rerouting, tier re-parenting and auto-fix.
C2_NoCycleInReturnedTree ==
    (pc = "done" /\ autoFix) => \A n \in Items : ~OnCycle(children, n)

\* every child edge, cross-school links included, leads to a node whose
\* skill tier is not below its parent's
TierOrdered ==
    \A p \in Items : \A c \in children[p] : TierOf(p) <= TierOf(c)

\* C3: in a returned tree no child is of a lower skill tier than its parent,
\* and no cross-school link runs from a higher tier to a lower one (stated
\* for builds without a user-selected root).
C3_TierMonotonic ==
    (pc = "done" /\ selected_roots = {}) => TierOrdered

\* C4: in a returned tree no node has more children than the configured
\* maximum (the output carries no overflow flag that could exempt a node).
C4_BranchingBound ==
    pc = "done" => \A n \in Items : NumKids(children, n) <= maxChildren

\* C5: each school tree has one root: it is a node of the school, has no
\* prerequisites and depth 0, and every other node has a prerequisite.
C5_SingleRoot ==
    pc = "done" =>
        \A k \in built :
            /\ root[k] \in SchoolItems(k)
            /\ prereqs[root[k]] = {}
            /\ depth[root[k]] = 0
            /\ \A n \in SchoolItems(k) \ {root[k]} : prereqs[n] # {}

\* C6: two builds of the same items with the same configuration and seed
\* return the same output.
C6_SameOutputOnRebuild ==
    phase = "rebuilt" => tree_data = prior

\* C7: validating (and auto-fixing) again a tree that was reported all_valid
\* reports all_valid again and leaves every node's children and
\* prerequisites as they were.
C7_RevalidationIdempotent ==
    phase = "revalidated" =>
        /\ children = prior.children
        /\ prereqs = prior.prerequisites
        /\ summary.all_valid
        /\ totalFixes = 0

C7_Witness ==
    /\ phase = "revalidated" /\ pc = "done"
    /\ strategy = "graph"
    /\ \E n \in Items : depth[n] >= 2

\* the schools in whose node list item n appears
TreesOf(n) == {k \in Schools : n \in TreeNodes(k)}

\* C8 as stated: every input item appears in exactly one school tree.
C8_EveryItemInOneTree ==
    pc = "done" => \A n \in Items : Cardinality(TreesOf(n)) = 1

\* C8 amended: every item of a recognised school appears in the tree of that
\* school and in no other, attached below the root, also when its tier is
\* missing or unrecognised; an item of an unrecognised school appears in no
\* tree.
C8_RecognisedItemsInOneTree ==
    pc = "done" =>
        \A n \in Items :
            IF school[n] \in Schools
            THEN /\ TreesOf(n) = {school[n]}
                 /\ n = root[school[n]] \/ prereqs[n] # {}
            ELSE TreesOf(n) = {}

C8_Witness ==
    /\ pc = "done"
    /\ \E n \in Items : school[n] = NoSchool
    /\ \E n \in Items : /\ skillLevel[n] = UnknownTier
                        /\ school[n] \in Schools
                        /\ n # root[school[n]]
                        /\ prereqs[n] # {}

\* C9: the classic builder, which has no raise of its own on the way, leaves
\* no node unattached: a node for which the widened parent search found
\* nothing is handed to _force_connect, which finds a
\* connected parent for it, so that at the end of the school every node is
\* connected and every node but the root has a connected prerequisite.
C9_ForceAttachSucceeds ==
    (strategy = "classic" /\ pc = "force") =>
        /\ \A n \in todo : ForceParents(n) # {}
        /\ SchoolItems(cur) \ connected \subseteq todo
        /\ \A n \in connected \ {root[cur]} : prereqs[n] \cap connected # {}

C9_Witness ==
    /\ strategy = "classic" /\ pc = "force" /\ todo = {}
    /\ connected = SchoolItems(cur)
    /\ \E p \in connected : NumKids(children, p) > maxChildren

\* C10: without the arborescence library the graph builder still returns a
\* tree, and with auto-fix enabled and without cross-school links that tree
\* is valid, fully reachable and tier-ordered like a Tier-Greedy tree.
C10_FallbackMeetsConstraints ==
    (pc = "done" /\ strategy = "graph" /\ ~hasNetworkx /\ autoFix /\ ~chaosHigh) =>
        /\ summary.all_valid
        /\ FullyReachable
        /\ TierOrdered


\* X holds the root and every node of S whose prerequisites are all in X
Closed(X, S, r, pre) ==
    r \in X /\ \A n \in S : pre[n] \subseteq X => n \in X

\* X holds the root and every node of S that lists a prerequisite and whose
\* prerequisites are all in X
ClosedLinked(X, S, r, pre) ==
    r \in X /\ \A n \in S : (pre[n] # {} /\ pre[n] \subseteq X) => n \in X

\* the smallest closed sets: what every closed set contains
LeastClosed(S, r, pre) ==
    {n \in S \cup {r} : \A X \in SUBSET (S \cup {r}) : Closed(X, S, r, pre) => n \in X}

LeastClosedLinked(S, r, pre) ==
    {n \in S \cup {r} :
        \A X \in SUBSET (S \cup {r}) : ClosedLinked(X, S, r, pre) => n \in X}

\* the state right after simulate_unlocks ran at the head of a fix pass
PassJustBegun == pc = "fix_node" /\ fixQueue = SeqOf(fixAll)

\* C11 as stated: simulate_unlocks returns the smallest set that holds the
\* root and every node whose prerequisites are all in the set.
C11_UnlocksAreLeastClosure ==
    /\ \A k \in built :
          simulate_unlocks(SchoolItems(k), root[k], prereqs)
              = LeastClosed(SchoolItems(k), root[k], prereqs)
    /\ PassJustBegun =>
          fixUnl = LeastClosed(SchoolItems(Head(fixSchools)),
                               root[Head(fixSchools)], prereqs)

\* C11 amended: simulate_unlocks returns the smallest set that holds the root
\* and every node that lists at least one prerequisite and whose
\* prerequisites are all in the set (a node other than the root that lists
\* no prerequisite is never unlocked); the loop ends at that fixed point, not
\* at its cap of N + 10 iterations.
C11_UnlocksAreLeastLinkedClosure ==
    /\ \A k \in built :
          simulate_unlocks(SchoolItems(k), root[k], prereqs)
              = LeastClosedLinked(SchoolItems(k), root[k], prereqs)
    /\ PassJustBegun =>
          fixUnl = LeastClosedLinked(SchoolItems(Head(fixSchools)),
                                     root[Head(fixSchools)], prereqs)

C11_Witness ==
    /\ PassJustBegun
    /\ Cardinality(fixUnl) >= 2
    /\ \E n \in fixAll : prereqs[n] = {}


\* seq is a directed cycle of the prerequisite graph on the nodes S: every
\* entry lists the next one as a prerequisite, and the last is the first
IsCycleOf(seq, S, pre) ==
    /\ Len(seq) >= 2
    /\ seq[1] = seq[Len(seq)]
    /\ \A i \in 1..(Len(seq) - 1) : seq[i] \in S /\ seq[i + 1] \in pre[seq[i]] \cap S

\* the prerequisite graph on the nodes S has a directed cycle
HasCycle(S, pre) ==
    \E n \in S : OnCycle([m \in Items |-> pre[m] \cap S], n)

\* C12: detect_cycles reports a cycle exactly when the prerequisite graph on
\* the existing nodes has a directed cycle, every sequence it reports is a
\* cycle of that graph, and the validation of a returned tree says has_cycles
\* exactly when one of its schools has such a cycle.
C12_CyclesReportedIffPresent ==
    /\ \A k \in built :
          LET cyc == detect_cycles(SchoolItems(k), prereqs) IN
          /\ (cyc # <<>>) <=> HasCycle(SchoolItems(k), prereqs)
          /\ \A i \in 1..Len(cyc) : IsCycleOf(cyc[i], SchoolItems(k), prereqs)
    /\ pc = "done" =>
          (summary.has_cycles <=> \E k \in built : HasCycle(SchoolItems(k), prereqs))

C12_Witness ==
    /\ pc = "done" /\ summary.has_cycles
    /\ \E k \in built :
          LET cyc == detect_cycles(SchoolItems(k), prereqs) IN
          /\ Len(cyc) >= 2
          /\ \E i \in 1..Len(cyc) : Len(cyc[i]) >= 3
          /\ \E n \in SchoolItems(k) : prereqs[n] \ SchoolItems(k) # {}


\* a step of the fix loop that repairs the node at the head of the queue
RepairStep == pc = "fix_node" /\ fixQueue # <<>> /\ totalFixes' # totalFixes

\* C13: when the fix loop repairs an unreachable node, the node's
\* prerequisites afterwards are all unlockable nodes and the node itself has
\* become unlockable; a node that had unlockable prerequisites keeps exactly
\* those, any other node gets exactly one new parent, an unlockable node that
\* had fewer than max_children children and now lists the node as a child;
\* no other node's prerequisites change.
C13_RepairedNodeHasUnlockedPrereqs ==
    [][RepairStep =>
        LET n == Head(fixQueue)
            k == Head(fixSchools)
        IN /\ prereqs'[n] # {}
           /\ prereqs'[n] \subseteq fixUnl
           /\ n \in simulate_unlocks(SchoolItems(k), root[k], prereqs')
           /\ IF prereqs[n] \cap fixUnl # {}
              THEN prereqs'[n] = prereqs[n] \cap fixUnl
              ELSE \E p \in fixUnl \ {n} :
                      /\ prereqs'[n] = {p}
                      /\ NumKids(children, p) < maxChildren
                      /\ n \in children'[p]
           /\ \A m \in Items \ {n} : prereqs'[m] = prereqs[m]]_vars

C13_Witness ==
    /\ pc = "fix_node" /\ progress /\ totalFixes >= 1
    /\ \E n \in fixAll :
          /\ \A i \in 1..Len(fixQueue) : fixQueue[i] # n
          /\ prereqs[n] \subseteq fixUnl
          /\ Cardinality(prereqs[n]) >= 2


\* the end of a pass of the fix loop in which no node was repaired
StallStep == pc = "fix_node" /\ fixQueue = <<>> /\ ~progress

\* C14: the fix loop of a school never runs more than 20 passes, and
\* validation with auto-fix takes only finitely many steps (no run goes on
\* for ever); at the end of a pass that repaired nothing, every unreachable
\* node but the root gets the root as its only prerequisite and is listed
\* among the root's children.
C14_FixTerminatesAndForceAttaches ==
    /\ [](fixPass <= 20 /\ (pc = "fix_node" => fixPass < 20))
    /\ [][StallStep =>
            LET r == root[Head(fixSchools)] IN
            \A n \in fixAll \ {r} : prereqs'[n] = {r} /\ n \in children'[r]]_vars
    /\ <>[][FALSE]_vars

C14_Witness ==
    /\ pc = "done" /\ totalFixes > 0
    /\ \E k \in built :
          /\ NumKids(children, root[k]) > maxChildren
          /\ Cardinality({n \in children[root[k]] : prereqs[n] = {root[k]}}) >= 3


\* the nodes that list n among their children
ParentsOf(n) == {p \in Items : n \in children[p]}

\* C15: in a returned tree the children lists of a school form a tree on the
\* school's nodes: no node lists the root as a child, every other node of the
\* school is listed as a child by exactly one node, and the nodes reached
\* from the root along children are exactly the school's nodes (so that
\* cross-school links and further prerequisites add nothing to the children
\* lists).
C15_ChildrenFormTree ==
    pc = "done" =>
        \A k \in built :
            /\ ParentsOf(root[k]) = {}
            /\ \A n \in SchoolItems(k) \ {root[k]} : Cardinality(ParentsOf(n)) = 1
            /\ ReachFrom(children, {root[k]}) = SchoolItems(k)

\* the cross-school links of the tree: a node listed as child by a node of
\* another school (only _apply_cross_school_edges makes such an entry)
CrossEdges == {e \in Items \X Items : e[2] \in children[e[1]] /\ school[e[1]] # school[e[2]]}

\* C17: in a returned tree, the child of a cross-school link lists the
\* cross-school parent among its prerequisites and, unless it is its school's
\* root, still lists a prerequisite of its own school.
C17_CrossLinkAdditive ==
    pc = "done" =>
        \A e \in CrossEdges :
            /\ e[1] \in prereqs[e[2]]
            /\ e[2] # root[school[e[2]]] => prereqs[e[2]] \cap SchoolItems(school[e[2]]) # {}


C18_RepairPassesBeforeValidation ==
    [][/\ built' # built => pc = "bfs"
       /\ (pc' = "bfs" /\ pc # "bfs") => pc = "tier_order"
       /\ (pc' = "tier_order" /\ pc # "tier_order") => pc = "constrain"]_vars


\* C19: the classic build of the six spells (tiers 0, 0, 1, 1, 2, 2, one
\* school, max_children 2, no user-selected root) leaves no spell to
\* _force_connect or to auto-fix and returns a tree whose root is a tier-0
\* spell without prerequisites, in which every other spell has one
\* prerequisite, of tier 0 for the tier-0 and tier-1 spells and of tier 1 for
\* the tier-2 spells, and in which all 6 spells are reachable.
C19_SixSpellScenario ==
    selected_roots = {} =>
        /\ pc = "force" => todo = {}
        /\ pc # "fix"
        /\ pc = "done" =>
              /\ TierOf(root[1]) = 0 /\ prereqs[root[1]] = {}
              /\ \A n \in Items \ {root[1]} :
                    \E p \in Items :
                       /\ prereqs[n] = {p}
                       /\ n \in children[p]
                       /\ TierOf(p) = Max(TierOf(n) - 1, 0)
              /\ summary.all_valid
              /\ summary.total_nodes = 6 /\ summary.reachable_nodes = 6
              /\ simulate_unlocks(Items, root[1], prereqs) = Items

C19_Witness ==
    /\ pc = "done" /\ selected_roots = {} /\ Cardinality(Items) = 6
    /\ skillLevel = ScenarioTiers
    /\ root[1] = 2
    /\ \E p \in Items \ {root[1]} : NumKids(children, p) = 2
    /\ summary.reachable_nodes = 6

\* C20: with the Arborescence strategy and a chaos not above 0.3 the output has
\* no cross-school edge: every prerequisite and every child listed by a node of
\* the output belongs to the node's own school.
C20_NoCrossEdgesAtLowChaos ==
    (pc = "done" /\ strategy = "graph" /\ ~chaosHigh) =>
        \A k \in built : \A n \in SchoolItems(k) :
            /\ prereqs[n] \subseteq SchoolItems(k)
            /\ children[n] \subseteq SchoolItems(k)

\* a finished Arborescence output of two schools at low chaos, with a link in it
C20_Witness ==
    /\ pc = "done" /\ strategy = "graph" /\ ~chaosHigh
    /\ Cardinality(built) >= 2
    /\ \E k \in built : \E n \in SchoolItems(k) : prereqs[n] # {}

\* the nodes of school k that can be unlocked from its root
Reachable(k, pre) == simulate_unlocks(SchoolItems(k), root[k], pre)

\* C23: across auto-fix the set of reachable nodes only grows. No step of a
\* pass changes the prerequisite list of a node that was reachable when the
\* pass began, and after every step each node that was reachable before it is
\* still reachable.
C23_ReachableOnlyGrows ==
    [][(pc = "fix" \/ pc = "fix_node") =>
         ( /\ \A k \in built : Reachable(k, prereqs) \subseteq Reachable(k, prereqs')
           /\ pc = "fix_node" => \A n \in fixUnl : prereqs'[n] = prereqs[n] )]_vars

\* a pass has ended and nodes that were unreachable when it began are reachable
C23_Witness ==
    /\ pc = "fix" /\ fixSchools # <<>> /\ fixPass >= 1 /\ totalFixes >= 1
    /\ Cardinality(fixUnl) >= 2
    /\ fixUnl # Reachable(Head(fixSchools), prereqs)
    /\ fixUnl \subseteq Reachable(Head(fixSchools), prereqs)

\* C24: in every returned tree the children and prerequisite lists agree:
\* a child listed by a node is a node of the same school tree and lists that
\* node among its prerequisites.
C24_ChildrenAgreeWithPrereqs ==
    pc = "done" =>
        \A k \in built : \A p \in SchoolItems(k) : \A c \in children[p] :
            c \in SchoolItems(k) /\ p \in prereqs[c]

\* C25: after the tier-order repair pass of the Arborescence strategy every
\* tree edge whose parent is not the root has a child of a strictly greater
\* tier than its parent.
C25_TierOrderAfterRepair ==
    (strategy = "graph" /\ pc = "bfs") =>
        \A n \in SchoolItems(cur) \ {root[cur]} : \A c \in children[n] :
            TierOf(c) > TierOf(n)

\* the tree right after _apply_arborescence, before the repair passes
ArborescenceApplied ==
    /\ strategy = "graph" /\ hasNetworkx /\ pc = "constrain"
    /\ passes = 1 /\ scan = SchoolItems(cur) /\ work = {} /\ visiting = NoItem

NormalPlaceStep ==
    /\ pc = "tier" /\ strategy = "classic"
    /\ connected' # connected
    /\ WidenSearch(tierIdx, 1) # {}

\* the available parents with spare capacity
AvailableWithRoom == WithRoom(UNION {available[d] : d \in TierIdxs}, maxChildren)

\* C27: the normal parent search of Tier-Greedy gives an item a parent k >= 2
\* tiers below it only if no available node of a nearer lower tier has spare
\* capacity.
C27_WidensOneTierAtATime ==
    [][NormalPlaceStep =>
         \A n \in connected' \ connected : \A p \in prereqs'[n] :
             TierOf(n) - TierOf(p) >= 2 =>
                 \A q \in AvailableWithRoom :
                     ~(TierOf(q) < TierOf(n) /\ TierOf(q) > TierOf(p))]_vars

\* C29: the validation summary returned with a build describes the returned
\* tree: validating the returned tree again gives the same all_valid,
\* total_nodes and reachable_nodes.
C29_SummaryDescribesReturnedTree ==
    pc = "done" =>
        LET again == get_validation_summary(children, prereqs)
        IN /\ summary.all_valid = again.all_valid
           /\ summary.total_nodes = again.total_nodes
           /\ summary.reachable_nodes = again.reachable_nodes

\* a build whose first validation failed and whose tree auto-fix has changed
C29_Witness ==
    /\ pc = "done" /\ phase = "first"
    /\ totalFixes > 0
    /\ summary.all_valid
    /\ summary.reachable_nodes = summary.total_nodes
    /\ summary.total_nodes >= 3

\* how often spell sp is listed in a list
Count(seq, sp) == Cardinality({i \in 1..Len(seq) : seq[i] = sp})

RECURSIVE Listings(_, _)
Listings(G, sp) ==
    IF G = {} THEN 0
    ELSE LET g == CHOOSE h \in G : TRUE
         IN Count(result[g], sp) + Listings(G \ {g}, sp)

\* C21: best-fit grouping places every spell in exactly one group: no list
\* ever holds a spell twice, and in the returned groups every spell is
\* listed exactly once, also after the move out of the unassigned bucket.
C21_EverySpellInOneGroup ==
    /\ gpc = "done" =>
          \A sp \in 1..Len(spells) : Listings(DOMAIN result, sp) = 1
    /\ gpc # "start" =>
          \A g \in DOMAIN result : \A sp \in 1..Len(spells) :
              Count(result[g], sp) <= 1

\* C22: every non-blank line that parses as a JSON request gets exactly one
\* response line, and that response carries the id of the request, whether
\* the command succeeds, fails, is unknown or is shutdown.
C22_OneResponseWithRequestId ==
    [][(MoreInput /\ CurrentLine.kind = "request") =>
         ( /\ Len(out') = Len(out) + 1
           /\ CurrentLine.id # NoId => out'[Len(out')].id = CurrentLine.id )]_vars

\* C30: a request that fails (handler raises, unknown command, invalid JSON)
\* never ends the server loop: the loop goes on to the next line, and only a
\* shutdown command or the end of the input ends it.
C30_FailingRequestKeepsLoop ==
    [][(MoreInput /\ ~(CurrentLine.kind = "request"
                       /\ CurrentLine.command = "shutdown")) =>
         spc' = "loop"]_vars

\* the prerequisite links that are no tree links: p is required by n, and n
\* is not a child of p
ConvergenceLinks ==
    {e \in LegacyNodes \X LegacyNodes :
        e[1] \in nodePrereqs[e[2]] /\ e[2] \notin nodeChildren[e[1]]}

\* C28: a convergence prerequisite of the legacy theme builder is a node
\* reachable from the root that is not a descendant of the node receiving
\* it, so the prerequisites never form a cycle.
C28_ConvergenceNeverCloses ==
    lpc # "idle" =>
        /\ \A e \in ConvergenceLinks :
            /\ e[1] \in _get_reachable_from_root(nodeChildren, legacyRoot)
            /\ e[1] \notin forward(nodeChildren, {}, {e[2]})
        /\ \A n \in LegacyNodes :
            n \notin forward(nodePrereqs, {}, nodePrereqs[n])

C28_Witness ==
    /\ lpc = "enforced"
    /\ \E n \in LegacyNodes :
        /\ nodeChildren[n] # {}
        /\ \E e \in ConvergenceLinks : e[2] = n
    /\ \E n \in LegacyNodes :
        /\ nodeTier[n] = 4
        /\ Cardinality({e \in ConvergenceLinks : e[2] = n}) = 2

====
